---- MODULE Spec2Model ----
(***************************************************************************)
(* Interrupt-to-task bridging and monotonic timekeeping of the Vorago      *)
(* shared HAL: the embassy time driver (src/src/embassy.rs), the async    *)
(* GPIO dispatcher and wait futures (src/src/gpio/asynch.rs) and the       *)
(* asynchronous UART receiver and transmitter (src/src/uart).              *)
(*                                                                         *)
(* Execution model: one core.  Task-level code is preempted by an          *)
(* interrupt handler as soon as an interrupt is pending and no handler or  *)
(* critical section is running; a handler runs to completion.  The 32 bit  *)
(* hardware counters are modelled with CounterBits bits.                   *)
(***************************************************************************)
EXTENDS Integers, Sequences, FiniteSets, TLC

\* ---------------------------------------------------------------- bounds
CounterBits == 3
MaxTime == 14
MaxDeadline == 9
MaxRetries == 3
MaxDispIters == 4
MaxRxBytes == 6
MaxBufLen == 2
RingCapacity == 2
RxFifoDepth == 3
RxTriggerLevel == 2
\* longest buffer handed to write()
MaxTxLen == 18
\* `core::cmp::min(data.len(), 16)`: the most bytes TxFuture::new writes itself
InitFillMax == 16

\* ------------------------------------------------------- derived constants
\* u32::MAX at the modelled counter width
CounterMax == 2^CounterBits - 1
\* hardware ticks of one period of the timekeeper (1 << 32 in the source)
PeriodTicks == 2^CounterBits
\* u64::MAX, the "no alarm" sentinel: above every timestamp of the model
U64Max == 2^(2 * CounterBits + 4) - 1
\* hardware ticks per logical tick that __init can configure
Scales == {1, 2}
Tasks == {1, 2}
Deadlines == 0..MaxDeadline
NotQueued == -1
None == -1
\* (timekeeper, alarm timer) arguments of __init: two different TIMs; an
\* unset OnceCell<TimId>
TimPairs == {<<0, 1>>, <<1, 0>>}
NoTim == -1
Builds == {"vor1x", "vor4x"}
\* the pins of the port that carry an asynchronous wait
Pins == {3, 5}
InterruptEdges == {"HighToLow", "LowToHigh", "BothEdges"}

VARIABLES
    scale,        \* SCALE OnceCell: 0 = not set
    periods,      \* TimerDriver.periods
    alarmTs,      \* AlarmState.timestamp
    queue,        \* Deadline Queue: task -> expires_at or NotQueued
    tkCount,      \* timekeeper TIM count register (decrementing)
    alarmCount,   \* alarm TIM count register
    alarmReset,   \* alarm TIM reset (reload) register
    alarmEn,      \* alarm TIM enable bit
    alarmIrqEn,   \* alarm TIM irq_enable bit
    wrapPending,  \* timekeeper interrupt pending
    alarmPending, \* alarm interrupt pending
    hwTime,       \* hardware ticks elapsed since __init (history)
    taskPc,       \* position of the task inside a preemptible now() call
    period1,      \* now(): local period1
    counterVal,   \* now(): local counter_val
    periodsAtRead,\* now(): value of periods when counter_val was read (history)
    nowRet,       \* last value returned by a preemptible now() call
    nowRetried,   \* the running/last now() call took the retry branch
    handler,      \* handler running with interrupts masked
    hpc,          \* its position in the next_expiration/set_alarm loop
    next,         \* local `next` of schedule_wake / trigger_alarm
    retries,      \* failed set_alarm calls of the running/last retry loop (history)
    pastDue,      \* tasks whose deadline had already elapsed when scheduled (history)
    lastWake,     \* what the next_expiration call just made woke (history)
    build,        \* cargo feature the HAL is built with: "vor1x" or "vor4x"
    irqEnb,       \* GPIO port irq_enable register
    irqSen,       \* GPIO port irq_sen register
    irqEvt,       \* GPIO port irq_evt register
    irqEdge,      \* GPIO port irq_edge register
    edgeDetection,\* EDGE_DETECTION_PORT_x: pin -> AtomicBool
    wakers,       \* WAKERS_FOR_PORT_x: pin -> a waker is registered
    fut,          \* pin -> state of the InputPinFuture bound to it
    dispPc,       \* position of the port interrupt dispatcher
    dispEnb,      \* on_interrupt_for_port: local irq_enb
    dispEdge,     \* on_interrupt_for_port: argument edge_status
    dispEnb0,     \* irq_enable as the running/last dispatch read it (history)
    dispFlags0,   \* edgeDetection when the running/last dispatch began (history)
    dispWakers0,  \* wakers when the running/last dispatch began (history)
    dispIters,    \* loop iterations of the running/last dispatch (history)
    wakeLog,      \* pins whose slot it woke, in order (history)
    callResult,   \* outcome of the last call that named a port without interrupts
    pinHigh,      \* pin -> level of the input pin
    edgeStatus,   \* GPIO port edge_status register
    gpioIrq,      \* the port's interrupt is pending
    waitPc,       \* pin -> position of the InputPinAsync::wait_for_* call on it
    waitOp,       \* pin -> which wait_for_* operation that call is
    needsPoll,    \* pin -> the executor has to poll the awaiting task
    evtInWait,    \* pin -> the dispatcher stored edge_detected during the wait (history)
    levelSeen,    \* pin -> the awaited level was reached after the arming (history)
    rxVariant,    \* which receiver owns the UART bank: "none", "A" (RxAsync), "B" (RxAsyncOverwriting)
    rxEn,         \* UART enable: rx
    rxIrqEn,      \* UART irq_enb: rx_status, rx and rx_timeout
    rxFifo,       \* hardware RX FIFO
    rxArrived,    \* bytes the line has delivered so far; byte k has value k
    ring,         \* heapless::spsc::Queue shared by the ISR (producer) and read (consumer)
    rxHasData,    \* RX_HAS_DATA[bank]
    rxReadActive, \* RX_READ_ACTIVE[bank]
    rxWaker,      \* UART_RX_WAKERS[bank] holds a waker
    readPc,       \* position of the read() call of the receiver
    readLen,      \* read(): buf.len()
    readEmpty,    \* read(): outcome of `queue.len() == 0`
    readOut,      \* read(): what handle_data_in_queue last took (history)
    readHist,     \* read(): how the running/last call went (history)
    rxStats,      \* what the ISR did so far (history)
    rxIsr,        \* what the last ISR invocation found and returned (history)
    rxWoken,      \* the executor has to poll the task awaiting the read
    txContext,    \* TX_CONTEXTS[bank]: progress, tx_overrun, slice
    txIrqEn,      \* UART irq_enb: tx, tx_empty and tx_status
    txEn,         \* UART enable: tx
    txDone,       \* TX_DONE[bank]
    txWaker,      \* UART_TX_WAKERS[bank] holds a waker
    writePc,      \* position of the write() call of the transmitter
    writeBuf,     \* write(): the caller's buf
    writeOut,     \* write(): the count the future resolved to
    writeErr,     \* write(): the future resolved to Err(TxOverrunError)
    txWritten,    \* bytes written to the data register since write() began (history)
    txHist,       \* how the running/last write went (history)
    txWoken,      \* the executor has to poll the task awaiting the write
    timekeeperTim,\* TIMEKEEPER_TIM OnceCell: NoTim = not set
    alarmTim,     \* ALARM_TIM OnceCell: NoTim = not set
    reinit        \* an __init call was made on the initialised driver (history)

timeVars == <<scale, periods, alarmTs, queue, tkCount, alarmCount, alarmReset,
              alarmEn, alarmIrqEn, wrapPending, alarmPending, hwTime, taskPc,
              period1, counterVal, periodsAtRead, nowRet, nowRetried, handler,
              hpc, next,
              retries, pastDue, lastWake>>

gpioVars == <<build, irqEnb, irqSen, irqEvt, irqEdge, edgeDetection, wakers, fut,
              dispPc, dispEnb, dispEdge, dispEnb0, dispFlags0, dispWakers0,
              dispIters, wakeLog>>

portVars == <<callResult>>

waitVars == <<pinHigh, edgeStatus, gpioIrq, waitPc, waitOp, needsPoll,
              evtInWait, levelSeen>>

rxVars == <<rxVariant, rxEn, rxIrqEn, rxFifo, rxArrived, ring, rxHasData,
            rxReadActive, rxWaker, readPc, readLen, readEmpty, readOut, readHist,
            rxStats, rxIsr, rxWoken>>

txVars == <<txContext, txIrqEn, txEn, txDone, txWaker, writePc, writeBuf,
            writeOut, writeErr, txWritten, txHist, txWoken>>

initVars == <<timekeeperTim, alarmTim, reinit>>

vars == <<timeVars, initVars, gpioVars, portVars, waitVars, rxVars, txVars>>

alarmHw == <<alarmCount, alarmReset, alarmEn, alarmIrqEn>>
nowLocals == <<taskPc, period1, counterVal, periodsAtRead, nowRet, nowRetried>>

\* ---------------------------------------------------------------- helpers
Max(a, b) == IF a >= b THEN a ELSE b
Min(a, b) == IF a <= b THEN a ELSE b
SetMin(S) == CHOOSE x \in S : \A y \in S : x <= y

\* u64::checked_mul
CheckedMul(a, b) == IF a * b > U64Max THEN None ELSE a * b
FitsU32Always(v) == v # None

\* is_some_and(|v| v <= u32::MAX as u64)
FitsU32(v) == v # None /\ v <= CounterMax

\* (((period1 as u64) << 32) | counter_val as u64) / SCALE
NowValue(p, cv, s) == ((p * PeriodTicks) + cv) \div s

PeriodsConsistentNoCheck(p1, p2) == TRUE

\* the double read of now(): the two loads of `periods` agree
PeriodsConsistent(p1, p2) == p1 = p2

NowMaskedNoInitCheck ==
    IF scale = 0 THEN CounterMax - tkCount
    ELSE NowValue(periods, CounterMax - tkCount, scale)

\* now() called where it cannot be preempted (handler or critical section)
NowMasked ==
    IF scale = 0 THEN 0 ELSE NowValue(periods, CounterMax - tkCount, scale)

\* the time the hardware has really counted, in logical ticks
TrueNow == IF scale = 0 THEN 0 ELSE hwTime \div scale

NoWake == [woken |-> {}, due |-> {}, now |-> 0, trueNow |-> 0, remaining |-> {}]

NoRead == [n |-> 0, bytes |-> <<>>, before |-> <<>>]
NoReadHist == [nonEmpty |-> FALSE, suspended |-> FALSE, abandoned |-> FALSE]
\* TxContext::new()
NewTxContext == [progress |-> 0, tx_overrun |-> FALSE, slice |-> <<>>]
NoTxHist == [rounds |-> 0, abandoned |-> FALSE, overrun |-> FALSE,
             calledWhileOff |-> {}, busyWaits |-> FALSE, busyAtDone |-> FALSE]
NoRxIsr == [ret |-> "none", irq_clr |-> {}]
NoRxStats == [taken |-> 0, drops |-> 0, reports |-> 0, evictions |-> 0, removed |-> 0]

\* no call naming a port without interrupt wiring has been made
NoCall == [op |-> "none", result |-> "none"]

\* the program has not panicked
Running == callResult.result # "panic"

NoIrqPending == ~wrapPending /\ ~alarmPending
TaskRuns == handler = "none" /\ NoIrqPending

\* ------------------------------------------------------------ Deadline Queue
QueueScheduleWake(q, at, tk) ==
    IF q[tk] = NotQueued \/ at <= q[tk]
    THEN [q |-> [q EXCEPT ![tk] = at], changed |-> TRUE]
    ELSE [q |-> q, changed |-> FALSE]

Expired(q, n) == {tk \in Tasks : q[tk] # NotQueued /\ q[tk] <= n}

QueueNextExpiration(q, n) ==
    LET exp == Expired(q, n)
        rest == {tk \in Tasks : q[tk] # NotQueued /\ tk \notin exp}
    IN [q |-> [tk \in Tasks |->
                  IF tk \in exp \/ q[tk] = U64Max THEN NotQueued ELSE q[tk]],
        next |-> IF rest = {} THEN U64Max ELSE SetMin({q[tk] : tk \in rest}),
        woken |-> exp]

\* ------------------------------------------------------------------- Init
Init ==
    /\ scale = 0
    /\ periods = 0
    /\ alarmTs = U64Max
    /\ queue = [tk \in Tasks |-> NotQueued]
    /\ tkCount = 0
    /\ alarmCount = 0
    /\ alarmReset = 0
    /\ alarmEn = FALSE
    /\ alarmIrqEn = FALSE
    /\ wrapPending = FALSE
    /\ alarmPending = FALSE
    /\ hwTime = 0
    /\ taskPc = "idle"
    /\ period1 = 0
    /\ counterVal = 0
    /\ periodsAtRead = 0
    /\ nowRet = 0
    /\ nowRetried = FALSE
    /\ handler = "none"
    /\ hpc = "none"
    /\ next = U64Max
    /\ retries = 0
    /\ pastDue = {}
    /\ lastWake = NoWake
    /\ build \in Builds
    /\ irqEnb = 0
    /\ irqSen = 0
    /\ irqEvt = 0
    /\ irqEdge = 0
    /\ edgeDetection = [p \in Pins |-> FALSE]
    /\ wakers = [p \in Pins |-> FALSE]
    /\ fut = [p \in Pins |-> "none"]
    /\ dispPc = "idle"
    /\ dispEnb = 0
    /\ dispEdge = 0
    /\ dispEnb0 = 0
    /\ dispFlags0 = [p \in Pins |-> FALSE]
    /\ dispWakers0 = [p \in Pins |-> FALSE]
    /\ dispIters = 0
    /\ wakeLog = <<>>
    /\ callResult = NoCall
    /\ pinHigh = [p \in Pins |-> FALSE]
    /\ edgeStatus = 0
    /\ gpioIrq = FALSE
    /\ waitPc = [p \in Pins |-> "idle"]
    /\ waitOp = [p \in Pins |-> "high"]
    /\ needsPoll = [p \in Pins |-> FALSE]
    /\ evtInWait = [p \in Pins |-> FALSE]
    /\ levelSeen = [p \in Pins |-> FALSE]
    /\ rxVariant = "none"
    /\ rxEn = FALSE
    /\ rxIrqEn = FALSE
    /\ rxFifo = <<>>
    /\ rxArrived = 0
    /\ ring = <<>>
    /\ rxHasData = FALSE
    /\ rxReadActive = FALSE
    /\ rxWaker = FALSE
    /\ readPc = "idle"
    /\ readLen = 0
    /\ readEmpty = FALSE
    /\ readOut = NoRead
    /\ readHist = NoReadHist
    /\ rxStats = NoRxStats
    /\ rxIsr = NoRxIsr
    /\ rxWoken = FALSE
    /\ txContext = NewTxContext
    /\ txIrqEn = FALSE
    /\ txEn = FALSE
    /\ txDone = FALSE
    /\ txWaker = FALSE
    /\ writePc = "idle"
    /\ writeBuf = <<>>
    /\ writeOut = 0
    /\ writeErr = FALSE
    /\ txWritten = <<>>
    /\ txHist = NoTxHist
    /\ txWoken = FALSE
    /\ timekeeperTim = NoTim
    /\ alarmTim = NoTim
    /\ reinit = "no"

\* ------------------------------------------------------------- __init
AlreadyInitialisedNever(alarm_tim, timekeeper_tim) == FALSE

\* `if ALARM_TIM.get().is_some() || TIMEKEEPER_TIM.get().is_some() { return; }`
AlreadyInitialised(alarm_tim, timekeeper_tim) ==
    alarm_tim # NoTim \/ timekeeper_tim # NoTim

\* OnceCell::set: the cell keeps a value it already has
OnceCellSet(cell, unset, value) == IF cell = unset THEN value ELSE cell

\* body of __init with the scale sysclk / TICK_HZ and the two TIM identities
TimerDriverInit(s, timekeeper_id, alarm_id) ==
    IF AlreadyInitialised(alarmTim, timekeeperTim)
    THEN UNCHANGED <<scale, tkCount, alarmEn, alarmIrqEn, timekeeperTim, alarmTim>>
    ELSE /\ alarmTim' = OnceCellSet(alarmTim, NoTim, alarm_id)
         /\ timekeeperTim' = OnceCellSet(timekeeperTim, NoTim, timekeeper_id)
         /\ scale' = OnceCellSet(scale, 0, s)
         /\ tkCount' = CounterMax
         /\ alarmEn' = FALSE
         /\ alarmIrqEn' = FALSE

\* __init, called with TIM 0 as timekeeper and TIM 1 as alarm timer
DriverInit(s) ==
    /\ TaskRuns /\ taskPc = "idle"
    /\ TimerDriverInit(s, 0, 1)
    /\ UNCHANGED reinit
    /\ UNCHANGED <<periods, alarmTs, queue, alarmCount, alarmReset, wrapPending,
                   alarmPending, hwTime, nowLocals, handler, hpc, next,
                   retries, pastDue, lastWake>>
    /\ UNCHANGED <<gpioVars, portVars, waitVars, rxVars, txVars>>

\* __init, called with any arguments; a call on the initialised driver is
\* recorded, as is whether an alarm was armed then
InitCall(s, timekeeper_id, alarm_id) ==
    /\ TaskRuns /\ taskPc = "idle"
    /\ TimerDriverInit(s, timekeeper_id, alarm_id)
    /\ reinit' = IF /\ scale # 0 /\ s # scale
                    /\ timekeeper_id # timekeeperTim /\ alarm_id # alarmTim
                    /\ alarmTs # U64Max /\ alarmEn /\ periods > 0
                 THEN "armed"
                 ELSE reinit
    /\ UNCHANGED <<periods, alarmTs, queue, alarmCount, alarmReset, wrapPending,
                   alarmPending, hwTime, nowLocals, handler, hpc, next,
                   retries, pastDue, lastWake>>
    /\ UNCHANGED <<gpioVars, portVars, waitVars, rxVars, txVars>>

\* --------------------------------------------------------- hardware clock
\* One clock tick of both TIM peripherals.  The timekeeper counts u32::MAX
\* down to 0, then reloads u32::MAX and raises its interrupt (one period is
\* 1 << 32 ticks).  The alarm TIM raises its interrupt when the count written
\* to it has elapsed (a count of 0 elapses with the next tick) and reloads its
\* reset value.
AlarmExpires == alarmEn /\ alarmCount <= 1

TickEffect ==
    /\ hwTime' = hwTime + 1
    /\ tkCount' = IF tkCount = 0 THEN CounterMax ELSE tkCount - 1
    /\ wrapPending' = (wrapPending \/ tkCount = 0)
    /\ alarmCount' = IF ~alarmEn THEN alarmCount
                     ELSE IF alarmCount <= 1 THEN alarmReset
                     ELSE alarmCount - 1
    /\ alarmPending' = (alarmPending \/ (AlarmExpires /\ alarmIrqEn))
    /\ UNCHANGED <<scale, periods, alarmTs, queue, alarmReset, alarmEn,
                   alarmIrqEn, nowLocals, handler, hpc, next, retries, pastDue,
                   lastWake>>
    /\ UNCHANGED <<initVars, gpioVars, portVars, waitVars, rxVars, txVars>>

Tick ==
    /\ scale # 0
    /\ hwTime < MaxTime
    /\ TaskRuns
    /\ TickEffect

\* time passing between the two now() reads of a handler's retry loop
TickInHandler ==
    /\ scale # 0
    /\ hwTime < MaxTime
    /\ hpc = "set_alarm"
    /\ TickEffect

\* ------------------------------------------------------ now(), preemptible
NowCall ==
    /\ TaskRuns /\ taskPc = "idle"
    /\ IF scale = 0
       THEN /\ nowRet' = 0
            /\ UNCHANGED <<taskPc, nowRetried>>
       ELSE /\ taskPc' = "now_p1"
            /\ nowRetried' = FALSE
            /\ UNCHANGED nowRet
    /\ UNCHANGED <<scale, periods, alarmTs, queue, tkCount, alarmHw, wrapPending,
                   alarmPending, hwTime, period1, counterVal, periodsAtRead,
                   handler, hpc, next, retries, pastDue, lastWake>>
    /\ UNCHANGED <<initVars, gpioVars, portVars, waitVars, rxVars, txVars>>

NowReadPeriod1 ==
    /\ TaskRuns /\ taskPc = "now_p1"
    /\ period1' = periods
    /\ taskPc' = "now_cnt"
    /\ UNCHANGED <<scale, periods, alarmTs, queue, tkCount, alarmHw, wrapPending,
                   alarmPending, hwTime, counterVal, periodsAtRead, nowRet,
                   nowRetried, handler, hpc, next, retries, pastDue, lastWake>>
    /\ UNCHANGED <<initVars, gpioVars, portVars, waitVars, rxVars, txVars>>

NowReadCounter ==
    /\ TaskRuns /\ taskPc = "now_cnt"
    /\ counterVal' = CounterMax - tkCount
    /\ periodsAtRead' = periods
    /\ taskPc' = "now_p2"
    /\ UNCHANGED <<scale, periods, alarmTs, queue, tkCount, alarmHw, wrapPending,
                   alarmPending, hwTime, period1, nowRet, nowRetried, handler,
                   hpc, next, retries, pastDue, lastWake>>
    /\ UNCHANGED <<initVars, gpioVars, portVars, waitVars, rxVars, txVars>>

NowReadPeriod2 ==
    /\ TaskRuns /\ taskPc = "now_p2"
    /\ IF PeriodsConsistent(period1, periods)
       THEN /\ nowRet' = NowValue(period1, counterVal, scale)
            /\ taskPc' = "idle"
            /\ UNCHANGED nowRetried
       ELSE /\ taskPc' = "now_p1"
            /\ nowRetried' = TRUE
            /\ UNCHANGED nowRet
    /\ UNCHANGED <<scale, periods, alarmTs, queue, tkCount, alarmHw, wrapPending,
                   alarmPending, hwTime, period1, counterVal, periodsAtRead,
                   handler, hpc, next, retries, pastDue, lastWake>>
    /\ UNCHANGED <<initVars, gpioVars, portVars, waitVars, rxVars, txVars>>

\* ----------------------------------------------------------- schedule_wake
ScheduleWake(at, tk) ==
    /\ TaskRuns /\ taskPc = "idle"
    /\ LET r == QueueScheduleWake(queue, at, tk)
       IN /\ queue' = r.q
          /\ IF r.changed
             THEN /\ handler' = "schedule_wake"
                  /\ hpc' = "next_exp"
                  /\ retries' = 0
                  /\ pastDue' = IF at < TrueNow THEN pastDue \cup {tk}
                                 ELSE pastDue \ {tk}
             ELSE UNCHANGED <<handler, hpc, retries, pastDue>>
    /\ UNCHANGED <<scale, periods, alarmTs, tkCount, alarmHw, wrapPending,
                   alarmPending, hwTime, nowLocals, next, lastWake>>
    /\ UNCHANGED <<initVars, gpioVars, portVars, waitVars, rxVars, txVars>>

\* next = queue.next_expiration(self.now())
NextExpirationStep ==
    /\ hpc = "next_exp"
    /\ LET n == NowMasked
           r == QueueNextExpiration(queue, n)
       IN /\ queue' = r.q
          /\ next' = r.next
          /\ pastDue' = pastDue \ r.woken
          /\ lastWake' = [woken |-> {queue[tk] : tk \in r.woken},
                          due |-> {queue[tk] : tk \in r.woken \ pastDue},
                          now |-> n,
                          trueNow |-> TrueNow,
                          remaining |-> {r.q[tk] : tk \in Tasks} \ {NotQueued}]
    /\ hpc' = "set_alarm"
    /\ UNCHANGED <<scale, periods, alarmTs, tkCount, alarmHw, wrapPending,
                   alarmPending, hwTime, nowLocals, handler, retries>>
    /\ UNCHANGED <<initVars, gpioVars, portVars, waitVars, rxVars, txVars>>

SetAlarmFailsStrict(timestamp, t) == timestamp < t

\* set_alarm: `timestamp <= t`, the deadline has already passed
SetAlarmFails(timestamp, t) == timestamp <= t

SafeTimestampPlus4(timestamp, t) == Max(timestamp, t + 4)

\* set_alarm: timestamp.max(t + 3)
SafeTimestamp(timestamp, t) == Max(timestamp, t + 3)

CachedSafeTimestamp(timestamp, safe_timestamp) == safe_timestamp

\* set_alarm: alarm.timestamp.set(timestamp), the value kept when it succeeds
CachedTimestamp(timestamp, safe_timestamp) == timestamp

\* set_alarm(cs, next); on failure the caller's while loop asks the queue again
SetAlarmStep ==
    /\ hpc = "set_alarm"
    /\ IF scale = 0
       THEN /\ hpc' = "next_exp"
            /\ retries' = Min(retries + 1, MaxRetries)
            /\ UNCHANGED <<alarmTs, alarmHw, handler>>
       ELSE LET t == NowMasked
                safe_timestamp == SafeTimestamp(next, t)
                timer_ticks == CheckedMul(safe_timestamp - t, scale)
            IN IF SetAlarmFails(next, t)
               THEN /\ alarmTs' = U64Max
                    /\ alarmEn' = FALSE
                    /\ alarmIrqEn' = FALSE
                    /\ hpc' = "next_exp"
                    /\ retries' = Min(retries + 1, MaxRetries)
                    /\ UNCHANGED <<alarmCount, alarmReset, handler>>
               ELSE /\ alarmTs' = CachedTimestamp(next, safe_timestamp)
                    /\ alarmReset' = CounterMax
                    /\ IF FitsU32(timer_ticks)
                       THEN /\ alarmCount' = timer_ticks
                            /\ alarmEn' = TRUE
                            /\ alarmIrqEn' = TRUE
                       ELSE /\ alarmEn' = FALSE
                            /\ alarmIrqEn' = FALSE
                            /\ UNCHANGED alarmCount
                    /\ hpc' = "none"
                    /\ handler' = "none"
                    /\ UNCHANGED retries
    /\ lastWake' = NoWake
    /\ UNCHANGED <<scale, periods, queue, tkCount, wrapPending, alarmPending,
                   hwTime, nowLocals, next, pastDue>>
    /\ UNCHANGED <<initVars, gpioVars, portVars, waitVars, rxVars, txVars>>

\* ------------------------------------------------------ interrupt handlers
\* trigger_alarm: `alarm.timestamp.set(u64::MAX)`
TriggerAlarmTimestamp(timestamp) == U64Max

\* the handlers that run trigger_alarm
TriggerHandlers == {"on_interrupt_alarm", "on_interrupt_timekeeping"}

\* trigger_alarm up to its first next_expiration call
TriggerAlarmEntry(h) ==
    /\ alarmEn' = FALSE
    /\ alarmIrqEn' = FALSE
    /\ alarmTs' = TriggerAlarmTimestamp(alarmTs)
    /\ handler' = h
    /\ hpc' = "next_exp"
    /\ retries' = 0
    /\ UNCHANGED <<alarmCount, alarmReset>>

AlarmDueAlways(ts, n) == TRUE

\* the alarm handler's test `timestamp <= self.now()`
AlarmDue(ts, n) == ts <= n

OnInterruptAlarm ==
    /\ handler = "none"
    /\ alarmPending
    /\ alarmPending' = FALSE
    /\ IF AlarmDue(alarmTs, NowMasked)
       THEN TriggerAlarmEntry("on_interrupt_alarm")
       ELSE UNCHANGED <<alarmTs, alarmHw, handler, hpc, retries>>
    /\ UNCHANGED <<scale, periods, queue, tkCount, wrapPending, hwTime,
                   nowLocals, next, pastDue, lastWake>>
    /\ UNCHANGED <<initVars, gpioVars, portVars, waitVars, rxVars, txVars>>

\* on_interrupt_timekeeping -> next_period
OnInterruptTimekeeping ==
    /\ handler = "none"
    /\ wrapPending
    /\ wrapPending' = FALSE
    /\ periods' = periods + 1
    /\ LET t == (periods + 1) * PeriodTicks
           remaining_ticks == CheckedMul(alarmTs - t, scale)
       IN IF alarmTs < t
          THEN TriggerAlarmEntry("on_interrupt_timekeeping")
          ELSE /\ IF FitsU32(remaining_ticks)
                  THEN /\ alarmCount' = remaining_ticks
                       /\ alarmIrqEn' = TRUE
                       /\ alarmEn' = TRUE
                  ELSE UNCHANGED <<alarmCount, alarmIrqEn, alarmEn>>
               /\ UNCHANGED <<alarmTs, alarmReset, handler, hpc, retries>>
    /\ UNCHANGED <<scale, queue, tkCount, alarmPending, hwTime, nowLocals,
                   next, pastDue, lastWake>>
    /\ UNCHANGED <<initVars, gpioVars, portVars, waitVars, rxVars, txVars>>

\* ================================================================== GPIO
\* u32 bitmaps are naturals; bit b has weight 2^b
Bit(v, b) == (v \div 2^b) % 2 = 1
SetBit(v, b) == IF Bit(v, b) THEN v ELSE v + 2^b
ClearBit(v, b) == IF Bit(v, b) THEN v - 2^b ELSE v

\* u32::trailing_zeros of a non-zero value
RECURSIVE TrailingZeros(_)
TrailingZeros(v) == IF v % 2 = 1 THEN 0 ELSE 1 + TrailingZeros(v \div 2)

RECURSIVE PopCount(_)
PopCount(v) == IF v = 0 THEN 0 ELSE (v % 2) + PopCount(v \div 2)

RECURSIVE BitmapOf(_)
BitmapOf(S) ==
    IF S = {} THEN 0 ELSE LET b == CHOOSE x \in S : TRUE IN 2^b + BitmapOf(S \ {b})

\* the values the edge_status register can be read as
EdgeStatusValues == {BitmapOf(S) : S \in SUBSET Pins}

Range(f) == {f[i] : i \in DOMAIN f}

DispatchArgsSwapped(irq_enb, edge_status) ==
    [irq_enb |-> edge_status, edge_status |-> irq_enb]

\* on_interrupt_for_port(irq_enb, edge_status, wakers, edge_detection)
DispatchArgs(irq_enb, edge_status) ==
    [irq_enb |-> irq_enb, edge_status |-> edge_status]

EdgeStoreToggle(old) == ~old

\* edge_detection[bit_pos].store(true, Relaxed)
EdgeStore(old) == TRUE

\* one iteration of the `while irq_enb != 0` loop of on_interrupt_for_port
DispatchIteration(st) ==
    LET bit_pos == TrailingZeros(st.irq_enb)
        woke == [st EXCEPT !.wakers[bit_pos] = FALSE]
    IN IF Bit(st.edge_status, bit_pos)
       THEN [woke EXCEPT !.flags[bit_pos] = EdgeStore(@),
                         !.irq_enb = ClearBit(@, bit_pos)]
       ELSE woke

\* the whole loop, for arguments on which it ends
RECURSIVE DispatchRun(_)
DispatchRun(st) ==
    IF st.irq_enb = 0 THEN st ELSE DispatchRun(DispatchIteration(st))

\* LowLevelGpio::configure_edge_interrupt
ConfigureEdgeInterrupt(regs, pin, edge_type) ==
    LET sen == ClearBit(regs.sen, pin)
    IN CASE edge_type = "HighToLow" ->
                [sen |-> sen, evt |-> ClearBit(regs.evt, pin), edge |-> regs.edge]
         [] edge_type = "LowToHigh" ->
                [sen |-> sen, evt |-> SetBit(regs.evt, pin), edge |-> regs.edge]
         [] edge_type = "BothEdges" ->
                [sen |-> sen, evt |-> regs.evt, edge |-> SetBit(regs.edge, pin)]

\* what the port makes of a pin's irq_sen, irq_edge and irq_evt bits
Sensitivity(regs, pin) ==
    IF Bit(regs.sen, pin) THEN "Level"
    ELSE IF Bit(regs.edge, pin) THEN "BothEdges"
    ELSE IF Bit(regs.evt, pin) THEN "LowToHigh"
    ELSE "HighToLow"

\* new_with_input_pin: the vor1x constructor stores false into the pin's
\* edge_detection entry, the vor4x constructor does not
FlagAfterConstruction(b, old) == IF b = "vor1x" THEN FALSE ELSE old

DisableInterruptAllPins(irq_enb, pin) == 0

\* LowLevelGpio::disable_interrupt: "we only manipulate our own bit"
DisableInterrupt(irq_enb, pin) == ClearBit(irq_enb, pin)

gpioHistory == <<dispEnb0, dispFlags0, dispWakers0, dispIters, wakeLog>>
dispatcher == <<dispPc, dispEnb, dispEdge>>
edgeRegs == <<irqSen, irqEvt, irqEdge>>

\* body of InputPinFuture::new_with_input_pin: clear the flag (vor1x only),
\* configure_edge_interrupt, enable_interrupt
ConstructFuture(pin, edge) ==
    /\ edgeDetection' =
           [edgeDetection EXCEPT ![pin] = FlagAfterConstruction(build, @)]
    /\ LET r == ConfigureEdgeInterrupt(
                    [sen |-> irqSen, evt |-> irqEvt, edge |-> irqEdge], pin, edge)
       IN /\ irqSen' = r.sen
          /\ irqEvt' = r.evt
          /\ irqEdge' = r.edge
    /\ irqEnb' = SetBit(irqEnb, pin)
    /\ fut' = [fut EXCEPT ![pin] = "pending"]

PollFutureKeepFlag(pin) ==
    /\ wakers' = [wakers EXCEPT ![pin] = TRUE]
    /\ edgeDetection' = edgeDetection
    /\ fut' = [fut EXCEPT ![pin] = IF edgeDetection[pin] THEN "ready" ELSE "pending"]

\* body of poll: register the waker, then swap the flag to false
PollFuture(pin) ==
    /\ wakers' = [wakers EXCEPT ![pin] = TRUE]
    /\ edgeDetection' = [edgeDetection EXCEPT ![pin] = FALSE]
    /\ fut' = [fut EXCEPT ![pin] = IF edgeDetection[pin] THEN "ready" ELSE "pending"]

\* body of drop: disable_interrupt
DestroyFuture(pin) ==
    /\ irqEnb' = DisableInterrupt(irqEnb, pin)
    /\ fut' = [fut EXCEPT ![pin] = "none"]

\* InputPinFuture::new_with_input_pin
NewWithInputPin(pin, edge) ==
    /\ Running
    /\ dispPc = "idle"
    /\ fut[pin] = "none"
    /\ ConstructFuture(pin, edge)
    /\ UNCHANGED <<build, wakers, dispatcher, gpioHistory>>
    /\ UNCHANGED <<timeVars, initVars, portVars, waitVars, rxVars, txVars>>

\* <InputPinFuture as Future>::poll
Poll(pin) ==
    /\ Running
    /\ dispPc = "idle"
    /\ fut[pin] = "pending"
    /\ PollFuture(pin)
    /\ UNCHANGED <<build, irqEnb, edgeRegs, dispatcher, gpioHistory>>
    /\ UNCHANGED <<timeVars, initVars, portVars, waitVars, rxVars, txVars>>

\* <InputPinFuture as Drop>::drop, after completion or on abandonment
DropFuture(pin) ==
    /\ Running
    /\ dispPc = "idle"
    /\ fut[pin] # "none"
    /\ DestroyFuture(pin)
    /\ UNCHANGED <<build, edgeRegs, edgeDetection, wakers, dispatcher, gpioHistory>>
    /\ UNCHANGED <<timeVars, initVars, portVars, waitVars, rxVars, txVars>>

\* on_interrupt_for_async_gpio_for_port_generic: read the two registers and
\* enter on_interrupt_for_port
EnterDispatch(edge_status) ==
    /\ LET a == DispatchArgs(irqEnb, edge_status)
       IN /\ dispEnb' = a.irq_enb
          /\ dispEdge' = a.edge_status
          /\ dispPc' = IF a.irq_enb = 0 THEN "idle" ELSE "loop"
    /\ UNCHANGED <<build, irqEnb, edgeRegs, edgeDetection, wakers, fut>>

\* the port's interrupt handler is entered with the given edge_status value;
\* what it found is recorded
OnInterruptForPort(edge_status) ==
    /\ Running
    /\ dispPc = "idle"
    /\ EnterDispatch(edge_status)
    /\ dispEnb0' = irqEnb
    /\ dispFlags0' = edgeDetection
    /\ dispWakers0' = wakers
    /\ dispIters' = 0
    /\ wakeLog' = <<>>
    /\ UNCHANGED <<timeVars, initVars, portVars, waitVars, rxVars, txVars>>

\* on_interrupt_for_port: one pass through the body of the while loop
DispatchStep ==
    /\ LET st == DispatchIteration([irq_enb |-> dispEnb, edge_status |-> dispEdge,
                                    flags |-> edgeDetection, wakers |-> wakers])
       IN /\ dispEnb' = st.irq_enb
          /\ edgeDetection' = st.flags
          /\ wakers' = st.wakers
          /\ dispPc' = IF st.irq_enb = 0 THEN "idle" ELSE "loop"
    /\ UNCHANGED <<build, irqEnb, edgeRegs, fut, dispEdge>>

\* the dispatcher of a handler entered by OnInterruptForPort goes on; the
\* wakes it makes are recorded
DispatchIterate ==
    /\ Running
    /\ dispPc = "loop"
    /\ DispatchStep
    /\ wakeLog' = IF dispIters < MaxDispIters
                  THEN Append(wakeLog, TrailingZeros(dispEnb))
                  ELSE wakeLog
    /\ dispIters' = Min(dispIters + 1, MaxDispIters)
    /\ UNCHANGED <<dispEnb0, dispFlags0, dispWakers0>>
    /\ UNCHANGED <<timeVars, initVars, portVars, waitVars, rxVars, txVars>>

\* ------------------------------------------------------------ specification
\* the monotonic clock: preemptible now() calls against the wrap interrupt
ClockNext ==
    \/ \E s \in Scales : DriverInit(s)
    \/ Tick
    \/ NowCall
    \/ NowReadPeriod1
    \/ NowReadCounter
    \/ NowReadPeriod2
    \/ OnInterruptTimekeeping

ClockSpec == Init /\ [][ClockNext]_vars

\* the task and the wrap handler are not stopped for ever: a pending wrap
\* interrupt is served and a now() call goes on with its next read
ClockFairness ==
    /\ WF_vars(OnInterruptTimekeeping)
    /\ WF_vars(NowReadPeriod1)
    /\ WF_vars(NowReadCounter)
    /\ WF_vars(NowReadPeriod2)

ClockFairSpec == ClockSpec /\ ClockFairness

\* the alarm scheduler; handlers execute in zero time
DriverNext ==
    \/ \E s \in Scales : DriverInit(s)
    \/ Tick
    \/ \E at \in Deadlines, tk \in Tasks : ScheduleWake(at, tk)
    \/ NextExpirationStep
    \/ SetAlarmStep
    \/ OnInterruptAlarm
    \/ OnInterruptTimekeeping

Spec == Init /\ [][DriverNext]_vars

\* a handler that has started goes on: the critical section it runs in keeps
\* every interrupt out
DriverFairness ==
    /\ WF_vars(NextExpirationStep)
    /\ WF_vars(SetAlarmStep)

DriverFairSpec == Spec /\ DriverFairness

\* the alarm scheduler; time also passes while a handler runs
LatencyNext == DriverNext \/ TickInHandler

LatencySpec == Init /\ [][LatencyNext]_vars

\* the alarm scheduler, with __init called again at any time
InitNext ==
    \/ \E s \in Scales, tims \in TimPairs : InitCall(s, tims[1], tims[2])
    \/ Tick
    \/ \E at \in Deadlines, tk \in Tasks : ScheduleWake(at, tk)
    \/ NextExpirationStep
    \/ SetAlarmStep
    \/ OnInterruptAlarm
    \/ OnInterruptTimekeeping

InitSpec == Init /\ [][InitNext]_vars

\* asynchronous GPIO waits of one port against the port's interrupt dispatcher
GpioNext ==
    \/ \E pin \in Pins, edge \in InterruptEdges : NewWithInputPin(pin, edge)
    \/ \E pin \in Pins : Poll(pin)
    \/ \E pin \in Pins : DropFuture(pin)
    \/ \E edge_status \in EdgeStatusValues : OnInterruptForPort(edge_status)
    \/ DispatchIterate

GpioSpec == Init /\ [][GpioNext]_vars

\* ------------------------------------------- ports without interrupt wiring
\* Port::G of the vor4x family has no interrupt wiring
WaitEntryPoints ==
    {"InputPinAsync::new", "new_with_input_pin", "on_interrupt_for_async_gpio_for_port"}

\* pin_group_to_waker_and_edge_detection_group: `Port::G => unreachable!()`
PinGroupToWakerAndEdgeDetectionGroup(port) ==
    IF port = "G" THEN "panic" ELSE "tables"

\* InputPinAsync::new (vor4x)
InputPinAsyncNew(port) ==
    IF port = "G" THEN "PortDoesNotSupportInterrupts" ELSE "Ok"

\* InputPinFuture::new_with_input_pin (vor4x): the table lookup comes first;
\* LowLevelGpio::enable_interrupt(true) returns Ok(()) for every port
NewWithInputPinResult(port) ==
    IF PinGroupToWakerAndEdgeDetectionGroup(port) = "panic" THEN "panic" ELSE "Ok"

\* on_interrupt_for_async_gpio_for_port (vor4x)
OnInterruptForAsyncGpioForPort(port) ==
    IF port = "G" THEN "PortDoesNotSupportInterrupts" ELSE "Ok"

CallOutcome(op, port) ==
    CASE op = "InputPinAsync::new" -> InputPinAsyncNew(port)
      [] op = "new_with_input_pin" -> NewWithInputPinResult(port)
      [] op = "on_interrupt_for_async_gpio_for_port" -> OnInterruptForAsyncGpioForPort(port)

\* one of the entry points is called with Port::G or a pin of Port::G: each of
\* them returns or panics before it touches a table or a register
PortGCall(op) ==
    /\ Running
    /\ build = "vor4x"
    /\ dispPc = "idle"
    /\ callResult' = [op |-> op, result |-> CallOutcome(op, "G")]
    /\ UNCHANGED <<timeVars, initVars, gpioVars, waitVars, rxVars, txVars>>

PortNext ==
    \/ GpioNext
    \/ \E op \in WaitEntryPoints : PortGCall(op)

PortSpec == Init /\ [][PortNext]_vars

\* ----------------------------------------------- InputPinAsync::wait_for_*
WaitOps == {"high", "low", "rising", "falling", "any"}
LevelOps == {"high", "low"}
EdgeOps == WaitOps \ LevelOps
InFlight == {"armed", "await", "swap", "fastret", "pollret"}
Completed == {"fast", "polled", "empty"}

\* the InterruptEdge each wait_for_* passes to new_with_input_pin
EdgeOfWait(op) ==
    CASE op \in {"high", "rising"} -> "LowToHigh"
      [] op \in {"low", "falling"} -> "HighToLow"
      [] op = "any" -> "BothEdges"

\* wait_for_rising_edge has a body in the vor1x build only
HasBody(b, op) == ~(b = "vor4x" /\ op = "rising")

\* pin.is_high() for wait_for_high, pin.is_low() for wait_for_low
LevelSatisfied(op, high) == IF op = "high" THEN high ELSE ~high

\* task-level code runs while no port interrupt is pending or being handled
GpioTaskRuns == Running /\ ~gpioIrq /\ dispPc = "idle"

\* the input pin changes its level; the port latches the edge in edge_status
\* and raises its interrupt if the pin's interrupt is enabled, edge
\* sensitive, and the edge is one the irq_evt / irq_edge bits select
PinChange(pin) ==
    /\ GpioTaskRuns
    /\ LET newHigh == ~pinHigh[pin]
           fires == /\ Bit(irqEnb, pin)
                    /\ ~Bit(irqSen, pin)
                    /\ (Bit(irqEdge, pin) \/ (Bit(irqEvt, pin) <=> newHigh))
       IN /\ pinHigh' = [pinHigh EXCEPT ![pin] = newHigh]
          /\ edgeStatus' = IF fires THEN SetBit(edgeStatus, pin) ELSE edgeStatus
          /\ gpioIrq' = fires
          /\ levelSeen' =
                 [levelSeen EXCEPT ![pin] =
                     @ \/ (/\ waitPc[pin] \in {"armed", "await", "swap"}
                           /\ waitOp[pin] \in LevelOps
                           /\ LevelSatisfied(waitOp[pin], newHigh))]
    /\ UNCHANGED <<waitPc, waitOp, needsPoll, evtInWait>>
    /\ UNCHANGED <<timeVars, initVars, gpioVars, portVars, rxVars, txVars>>

\* a wait_for_* future is first polled: wait_for_high / wait_for_low construct
\* the handle and go on to sample the level, the edge waits construct it and
\* await it, the vor4x wait_for_rising_edge returns at once
WaitStart(pin, op) ==
    /\ GpioTaskRuns
    /\ waitPc[pin] \notin InFlight
    /\ fut[pin] = "none"
    /\ waitOp' = [waitOp EXCEPT ![pin] = op]
    /\ evtInWait' = [evtInWait EXCEPT ![pin] = FALSE]
    /\ levelSeen' = [levelSeen EXCEPT ![pin] = FALSE]
    /\ IF HasBody(build, op)
       THEN /\ ConstructFuture(pin, EdgeOfWait(op))
            /\ waitPc' = [waitPc EXCEPT ![pin] =
                              IF op \in LevelOps THEN "armed" ELSE "await"]
            /\ needsPoll' = [needsPoll EXCEPT ![pin] = op \in EdgeOps]
       ELSE /\ waitPc' = [waitPc EXCEPT ![pin] = "empty"]
            /\ UNCHANGED <<needsPoll, edgeRegs, irqEnb, edgeDetection, fut>>
    /\ UNCHANGED <<build, wakers, dispatcher, gpioHistory>>
    /\ UNCHANGED <<pinHigh, edgeStatus, gpioIrq>>
    /\ UNCHANGED <<timeVars, initVars, portVars, rxVars, txVars>>

\* wait_for_high / wait_for_low: `if self.pin.is_high() { return; }`
WaitSample(pin) ==
    /\ GpioTaskRuns
    /\ waitPc[pin] = "armed"
    /\ IF LevelSatisfied(waitOp[pin], pinHigh[pin])
       THEN /\ waitPc' = [waitPc EXCEPT ![pin] = "fastret"]
            /\ UNCHANGED needsPoll
       ELSE /\ waitPc' = [waitPc EXCEPT ![pin] = "await"]
            /\ needsPoll' = [needsPoll EXCEPT ![pin] = TRUE]
    /\ UNCHANGED <<pinHigh, edgeStatus, gpioIrq, waitOp, evtInWait, levelSeen>>
    /\ UNCHANGED <<timeVars, initVars, gpioVars, portVars, rxVars, txVars>>

\* `self.waker_group[idx].register(cx.waker())`
PollRegister(pin) == wakers' = [wakers EXCEPT ![pin] = TRUE]

\* `self.edge_detection_group[idx].swap(false, Relaxed)` and the return value
PollSwap(pin) ==
    /\ edgeDetection' = [edgeDetection EXCEPT ![pin] = FALSE]
    /\ fut' = [fut EXCEPT ![pin] = IF edgeDetection[pin] THEN "ready" ELSE "pending"]

\* `fut.await`: the executor polls the handle; poll registers the waker
WaitPoll(pin) ==
    /\ GpioTaskRuns
    /\ waitPc[pin] = "await"
    /\ PollRegister(pin)
    /\ waitPc' = [waitPc EXCEPT ![pin] = "swap"]
    /\ needsPoll' = [needsPoll EXCEPT ![pin] = FALSE]
    /\ UNCHANGED <<build, irqEnb, edgeRegs, edgeDetection, fut, dispatcher, gpioHistory>>
    /\ UNCHANGED <<pinHigh, edgeStatus, gpioIrq, waitOp, evtInWait, levelSeen>>
    /\ UNCHANGED <<timeVars, initVars, portVars, rxVars, txVars>>

\* poll goes on: it swaps the flag and returns Ready or Pending
WaitPollSwap(pin) ==
    /\ GpioTaskRuns
    /\ waitPc[pin] = "swap"
    /\ PollSwap(pin)
    /\ waitPc' = [waitPc EXCEPT ![pin] =
                      IF edgeDetection[pin] THEN "pollret" ELSE "await"]
    /\ UNCHANGED <<build, irqEnb, edgeRegs, wakers, dispatcher, gpioHistory>>
    /\ UNCHANGED <<pinHigh, edgeStatus, gpioIrq, waitOp, needsPoll, evtInWait,
                   levelSeen>>
    /\ UNCHANGED <<timeVars, initVars, portVars, rxVars, txVars>>

\* the wait returns: the handle goes out of scope and is dropped
WaitReturn(pin) ==
    /\ GpioTaskRuns
    /\ waitPc[pin] \in {"fastret", "pollret"}
    /\ DestroyFuture(pin)
    /\ waitPc' = [waitPc EXCEPT ![pin] =
                      IF waitPc[pin] = "fastret" THEN "fast" ELSE "polled"]
    /\ UNCHANGED <<build, edgeRegs, edgeDetection, wakers, dispatcher, gpioHistory>>
    /\ UNCHANGED <<pinHigh, edgeStatus, gpioIrq, waitOp, needsPoll, evtInWait,
                   levelSeen>>
    /\ UNCHANGED <<timeVars, initVars, portVars, rxVars, txVars>>

\* the wait is abandoned at a suspension point: its handle is dropped
WaitAbandon(pin) ==
    /\ GpioTaskRuns
    /\ waitPc[pin] = "await"
    /\ DestroyFuture(pin)
    /\ waitPc' = [waitPc EXCEPT ![pin] = "abandoned"]
    /\ needsPoll' = [needsPoll EXCEPT ![pin] = FALSE]
    /\ UNCHANGED <<build, edgeRegs, edgeDetection, wakers, dispatcher, gpioHistory>>
    /\ UNCHANGED <<pinHigh, edgeStatus, gpioIrq, waitOp, evtInWait, levelSeen>>
    /\ UNCHANGED <<timeVars, initVars, portVars, rxVars, txVars>>

\* the port's interrupt is taken: on_interrupt_for_async_gpio_for_port reads
\* irq_enable and edge_status; reading edge_status clears it
GpioInterrupt ==
    /\ Running
    /\ gpioIrq
    /\ dispPc = "idle"
    /\ EnterDispatch(edgeStatus)
    /\ UNCHANGED gpioHistory
    /\ edgeStatus' = 0
    /\ gpioIrq' = FALSE
    /\ UNCHANGED <<pinHigh, waitPc, waitOp, needsPoll, evtInWait, levelSeen>>
    /\ UNCHANGED <<timeVars, initVars, portVars, rxVars, txVars>>

\* on_interrupt_for_port in that handler: one pass through the loop body; a
\* wake of a registered waker makes the executor poll the task again
GpioDispatchIterate ==
    /\ Running
    /\ dispPc = "loop"
    /\ DispatchStep
    /\ UNCHANGED gpioHistory
    /\ LET bit_pos == TrailingZeros(dispEnb)
       IN /\ needsPoll' = [needsPoll EXCEPT ![bit_pos] = @ \/ wakers[bit_pos]]
          /\ evtInWait' = [evtInWait EXCEPT ![bit_pos] = @ \/ Bit(dispEdge, bit_pos)]
    /\ UNCHANGED <<pinHigh, edgeStatus, gpioIrq, waitPc, waitOp, levelSeen>>
    /\ UNCHANGED <<timeVars, initVars, portVars, rxVars, txVars>>

WaitNext ==
    \/ \E pin \in Pins : PinChange(pin)
    \/ \E pin \in Pins, op \in WaitOps : WaitStart(pin, op)
    \/ \E pin \in Pins : WaitSample(pin)
    \/ \E pin \in Pins : WaitPoll(pin)
    \/ \E pin \in Pins : WaitPollSwap(pin)
    \/ \E pin \in Pins : WaitReturn(pin)
    \/ \E pin \in Pins : WaitAbandon(pin)
    \/ GpioInterrupt
    \/ GpioDispatchIterate

WaitSpec == Init /\ [][WaitNext]_vars

\* handlers go on executing; task code that interrupts preempt again and
\* again still gets to run, and the executor polls a task that was woken;
\* pins change and waits are started or abandoned at will
WaitFairness ==
    /\ WF_vars(GpioInterrupt)
    /\ WF_vars(GpioDispatchIterate)
    /\ \A pin \in Pins :
          /\ SF_vars(WaitSample(pin))
          /\ SF_vars(needsPoll[pin] /\ WaitPoll(pin))
          /\ SF_vars(WaitPollSwap(pin))
          /\ SF_vars(WaitReturn(pin))

WaitFairSpec == WaitSpec /\ WaitFairness

\* ------------------------------------------------------- UART reception
Variants == {"A", "B"}
BufLens == 0..MaxBufLen

Take(q, n) == SubSeq(q, 1, n)
Drop(q, n) == SubSeq(q, n + 1, Len(q))

ProdAlwaysReady(q) == TRUE

\* `prod.ready()`: the ring buffer has room
ProdReady(q) == Len(q) < RingCapacity

EvictNothing(q) == q

\* variant B: `cons_ref.as_mut().unwrap().dequeue()` on the shared consumer
EvictOldest(q) == Tail(q)

\* `prod.enqueue(byte).ok()`: a full ring buffer refuses the byte
Enqueue(q, byte) == IF Len(q) < RingCapacity THEN Append(q, byte) ELSE q

\* the body of the two drain loops for one byte read from the data register
RxHandleByte(variant, st, byte) ==
    IF ProdReady(st.ring)
    THEN [st EXCEPT !.ring = Enqueue(@, byte)]
    ELSE IF variant = "A"
         THEN [st EXCEPT !.queue_overflow = TRUE,
                         !.drops = @ + 1,
                         !.ring = Enqueue(@, byte)]
         ELSE [st EXCEPT !.queue_overflow = TRUE,
                         !.evictions = @ + 1,
                         !.ring = Enqueue(EvictOldest(@), byte)]

RECURSIVE RxHandleBytes(_, _, _)
RxHandleBytes(variant, st, bytes) ==
    IF bytes = <<>> THEN st
    ELSE RxHandleBytes(variant, RxHandleByte(variant, st, Head(bytes)), Tail(bytes))

\* the bytes one ISR invocation reads from the FIFO: the trigger level on
\* the half-full interrupt, then everything left on the timeout interrupt
RxBytesRead(fifo, irq_rx, irq_rx_timeout) ==
    LET first == IF irq_rx THEN RxTriggerLevel ELSE 0
    IN IF irq_rx_timeout THEN Len(fifo) ELSE first

RxNoReport(st) == 0

\* `if uart_errors.is_some() || queue_overflow { return Err(..) }`: how many
\* overflow reports one ISR invocation makes
RxReports(st) == IF st.queue_overflow THEN 1 ELSE 0

\* the error bits the rx_status register can show when the ISR samples it
RxStatusValues == {{}, {"framing", "parity"}, {"break"}}

ReadSomeDataAlways(irq_rx, irq_rx_timeout) == TRUE

\* `read_some_data = true` at the end of the half-full and of the timeout branch
ReadSomeData(irq_rx, irq_rx_timeout) == irq_rx \/ irq_rx_timeout

\* on_interrupt_handle_rx_errors: Some(errors) if the overrun, framing or
\* parity bit is set, None (the empty set) otherwise
OnInterruptHandleRxErrors(rx_status) ==
    rx_status \cap {"overrun", "framing", "parity"}

RxErrorsSampledAlways(rx_enabled, rx_status) ==
    rx_status \cap {"overrun", "framing", "parity"}

\* on_interrupt_rx_common_post_processing: `if rx_enabled { errors = .. }`
RxErrorsSampled(rx_enabled, rx_status) ==
    IF rx_enabled THEN OnInterruptHandleRxErrors(rx_status) ELSE {}

\* `if uart_errors.is_some() || queue_overflow { return Err(..) } Ok(())`
RxResult(uart_errors, queue_overflow) ==
    IF uart_errors # {} \/ queue_overflow THEN "Err" ELSE "Ok"

\* the half-full interrupt is pending: it preempts task-level code
RxIrqPending == rxIrqEn /\ Len(rxFifo) >= RxTriggerLevel
RxTaskRuns == rxVariant # "none" /\ ~RxIrqPending

readLocals == <<readPc, readLen, readEmpty, readOut, readHist>>
rxFlags == <<rxHasData, rxReadActive, rxWaker>>

\* RxAsync::new / RxAsyncOverwriting::new
RxNew(variant) ==
    /\ rxVariant = "none"
    /\ rxVariant' = variant
    /\ rxFifo' = <<>>
    /\ rxIrqEn' = TRUE
    /\ rxEn' = TRUE
    /\ UNCHANGED <<rxArrived, ring, rxFlags, readLocals, rxStats, rxIsr, rxWoken>>
    /\ UNCHANGED <<timeVars, initVars, gpioVars, portVars, waitVars, txVars>>

\* RxAsync::stop / RxAsyncOverwriting::stop: stop_async_rx
RxStop ==
    /\ rxVariant # "none"
    /\ readPc = "idle"
    /\ rxEn
    /\ rxIrqEn' = FALSE
    /\ rxEn' = FALSE
    /\ rxFifo' = <<>>
    /\ UNCHANGED <<rxVariant, rxArrived, ring, rxFlags, readLocals, rxStats, rxIsr,
                   rxWoken>>
    /\ UNCHANGED <<timeVars, initVars, gpioVars, portVars, waitVars, txVars>>

\* the line delivers one more byte into the hardware FIFO
RxByteArrives ==
    /\ rxVariant # "none"
    /\ rxEn
    /\ rxArrived < MaxRxBytes
    /\ Len(rxFifo) < RxFifoDepth
    /\ rxArrived' = rxArrived + 1
    /\ rxFifo' = Append(rxFifo, rxArrived + 1)
    /\ UNCHANGED <<rxVariant, rxEn, rxIrqEn, ring, rxFlags, readLocals, rxStats, rxIsr,
                   rxWoken>>
    /\ UNCHANGED <<timeVars, initVars, gpioVars, portVars, waitVars, txVars>>

\* on_interrupt_rx / on_interrupt_rx_overwriting, called by the handler of
\* the UART's interrupt: irq_status shows the half-full condition, the
\* receive timeout (data sits in the FIFO), both, or neither of them (the
\* interrupt has another cause, or the RX interrupts are disabled);
\* rx_status is what the error bits of the status register show
OnInterruptRx(irq_rx_timeout, rx_status) ==
    /\ rxVariant # "none"
    /\ LET rx_enabled == rxIrqEn
           irq_rx == rxIrqEn /\ Len(rxFifo) >= RxTriggerLevel
           irq_timeout == rxIrqEn /\ irq_rx_timeout /\ rxFifo # <<>>
           count == RxBytesRead(rxFifo, irq_rx, irq_timeout)
           st == RxHandleBytes(rxVariant,
                               [ring |-> ring, queue_overflow |-> FALSE,
                                drops |-> 0, evictions |-> 0],
                               Take(rxFifo, count))
           read_some_data == ReadSomeData(irq_rx, irq_timeout)
           wake == read_some_data /\ rxReadActive
           uart_errors == RxErrorsSampled(rx_enabled, rx_status)
       IN /\ irq_rx_timeout => rxFifo # <<>>
          /\ rxFifo' = Drop(rxFifo, count)
          /\ ring' = st.ring
          /\ rxHasData' = IF read_some_data THEN TRUE ELSE rxHasData
          /\ rxWaker' = IF wake THEN FALSE ELSE rxWaker
          /\ rxWoken' = IF wake /\ rxWaker THEN TRUE ELSE rxWoken
          /\ rxStats' = [rxStats EXCEPT !.taken = @ + count,
                                        !.drops = @ + st.drops,
                                        !.evictions = @ + st.evictions,
                                        !.reports = @ + RxReports(st)]
          /\ rxIsr' = [ret |-> RxResult(uart_errors, st.queue_overflow),
                       irq_clr |-> {"rx_overrun"}]
    /\ UNCHANGED <<rxVariant, rxEn, rxIrqEn, rxArrived, rxReadActive, readLocals>>
    /\ UNCHANGED <<timeVars, initVars, gpioVars, portVars, waitVars, txVars>>

\* read() is called: variant A tests `queue.len() == 0`; variant B tests it
\* and clears RX_HAS_DATA inside one critical section
ReadCall(len) ==
    /\ RxTaskRuns
    /\ readPc = "idle"
    /\ readLen' = len
    /\ readEmpty' = (ring = <<>>)
    /\ readHist' = [nonEmpty |-> ring # <<>>, suspended |-> FALSE, abandoned |-> FALSE]
    /\ IF rxVariant = "A"
       THEN /\ readPc' = "store"
            /\ UNCHANGED rxHasData
       ELSE /\ readPc' = "activate"
            /\ rxHasData' = IF ring = <<>> THEN FALSE ELSE rxHasData
    /\ UNCHANGED <<rxVariant, rxEn, rxIrqEn, rxFifo, rxArrived, ring, rxReadActive, rxWaker,
                   readOut, rxStats, rxIsr, rxWoken>>
    /\ UNCHANGED <<timeVars, initVars, gpioVars, portVars, waitVars, txVars>>

\* variant A: `RX_HAS_DATA[..].store(false)` if the queue was seen empty
ReadStoreFlag ==
    /\ RxTaskRuns
    /\ readPc = "store"
    /\ rxHasData' = IF readEmpty THEN FALSE ELSE rxHasData
    /\ readPc' = "activate"
    /\ UNCHANGED <<rxVariant, rxEn, rxIrqEn, rxFifo, rxArrived, ring, rxReadActive, rxWaker,
                   readLen, readEmpty, readOut, readHist, rxStats, rxIsr, rxWoken>>
    /\ UNCHANGED <<timeVars, initVars, gpioVars, portVars, waitVars, txVars>>

\* RxFuture::new: RX_READ_ACTIVE[..].store(true)
ReadActivate ==
    /\ RxTaskRuns
    /\ readPc = "activate"
    /\ rxReadActive' = TRUE
    /\ readPc' = "data"
    /\ UNCHANGED <<rxVariant, rxEn, rxIrqEn, rxFifo, rxArrived, ring, rxHasData, rxWaker,
                   readLen, readEmpty, readOut, readHist, rxStats, rxIsr, rxWoken>>
    /\ UNCHANGED <<timeVars, initVars, gpioVars, portVars, waitVars, txVars>>

\* handle_data_in_queue: dequeue min(consumer.len(), buf.len()) bytes
HandleDataInQueue(q, len) ==
    LET data_to_read == Min(Len(q), len)
    IN [n |-> data_to_read, bytes |-> Take(q, data_to_read), before |-> q]

\* the first handle_data_in_queue call: return if it read something, else await
ReadData ==
    /\ RxTaskRuns
    /\ readPc = "data"
    /\ LET r == HandleDataInQueue(ring, readLen)
       IN /\ readOut' = r
          /\ ring' = Drop(ring, r.n)
          /\ rxStats' = [rxStats EXCEPT !.removed = @ + r.n]
          /\ readPc' = IF r.n > 0 THEN "ret" ELSE "await"
          /\ rxWoken' = IF r.n > 0 THEN rxWoken ELSE TRUE
    /\ UNCHANGED <<rxVariant, rxEn, rxIrqEn, rxFifo, rxArrived, rxFlags, readLen, readEmpty,
                   readHist, rxIsr>>
    /\ UNCHANGED <<timeVars, initVars, gpioVars, portVars, waitVars, txVars>>

\* <RxFuture as Future>::poll: `UART_RX_WAKERS[..].register(cx.waker())`
ReadPoll ==
    /\ RxTaskRuns
    /\ readPc = "await"
    /\ rxWaker' = TRUE
    /\ rxWoken' = FALSE
    /\ readPc' = "load"
    /\ UNCHANGED <<rxVariant, rxEn, rxIrqEn, rxFifo, rxArrived, ring, rxHasData,
                   rxReadActive, readLen, readEmpty, readOut, readHist, rxStats, rxIsr>>
    /\ UNCHANGED <<timeVars, initVars, gpioVars, portVars, waitVars, txVars>>

\* poll goes on: `RX_HAS_DATA[..].load()` decides between Ready and Pending
ReadPollLoad ==
    /\ RxTaskRuns
    /\ readPc = "load"
    /\ IF rxHasData
       THEN /\ readPc' = "data2"
            /\ UNCHANGED readHist
       ELSE /\ readPc' = "await"
            /\ readHist' = [readHist EXCEPT !.suspended = TRUE]
    /\ UNCHANGED <<rxVariant, rxEn, rxIrqEn, rxFifo, rxArrived, ring, rxFlags,
                   readLen, readEmpty, readOut, rxStats, rxIsr, rxWoken>>
    /\ UNCHANGED <<timeVars, initVars, gpioVars, portVars, waitVars, txVars>>

\* the handle_data_in_queue call after the await
ReadDataAfterAwait ==
    /\ RxTaskRuns
    /\ readPc = "data2"
    /\ LET r == HandleDataInQueue(ring, readLen)
       IN /\ readOut' = r
          /\ ring' = Drop(ring, r.n)
          /\ rxStats' = [rxStats EXCEPT !.removed = @ + r.n]
          /\ readPc' = "ret"
    /\ UNCHANGED <<rxVariant, rxEn, rxIrqEn, rxFifo, rxArrived, rxFlags, readLen, readEmpty,
                   readHist, rxIsr, rxWoken>>
    /\ UNCHANGED <<timeVars, initVars, gpioVars, portVars, waitVars, txVars>>

\* what the drop of ActiveReadGuard does to (irq_enb.rx, RX_READ_ACTIVE)
ActiveReadGuardDrop(irq_en, read_active) ==
    [irq_en |-> irq_en, read_active |-> FALSE]

\* read() returns Ok(n): ActiveReadGuard is dropped
ReadReturn ==
    /\ RxTaskRuns
    /\ readPc = "ret"
    /\ LET g == ActiveReadGuardDrop(rxIrqEn, rxReadActive)
       IN /\ rxIrqEn' = g.irq_en
          /\ rxReadActive' = g.read_active
    /\ readPc' = "idle"
    /\ UNCHANGED <<rxVariant, rxEn, rxFifo, rxArrived, ring, rxHasData, rxWaker,
                   readLen, readEmpty, readOut, readHist, rxStats, rxIsr, rxWoken>>
    /\ UNCHANGED <<timeVars, initVars, gpioVars, portVars, waitVars, txVars>>

\* the suspended read() future is abandoned: ActiveReadGuard is dropped
ReadAbandon ==
    /\ RxTaskRuns
    /\ readPc = "await"
    /\ readHist.suspended
    /\ LET g == ActiveReadGuardDrop(rxIrqEn, rxReadActive)
       IN /\ rxIrqEn' = g.irq_en
          /\ rxReadActive' = g.read_active
    /\ readPc' = "idle"
    /\ readHist' = [readHist EXCEPT !.abandoned = TRUE]
    /\ UNCHANGED <<rxVariant, rxEn, rxFifo, rxArrived, ring, rxHasData, rxWaker,
                   readLen, readEmpty, readOut, rxStats, rxIsr, rxWoken>>
    /\ UNCHANGED <<timeVars, initVars, gpioVars, portVars, waitVars, txVars>>

\* a step of the ISR: every other step changes the owner of the bank, the
\* receiver's enable bit, the line or the position of read()
RxIsrStep ==
    /\ rxVariant # "none"
    /\ UNCHANGED <<rxVariant, rxEn, rxArrived, readPc>>

RxNext ==
    \/ \E variant \in Variants : RxNew(variant)
    \/ RxByteArrives
    \/ RxStop
    \/ \E irq_rx_timeout \in BOOLEAN, rx_status \in RxStatusValues :
           OnInterruptRx(irq_rx_timeout, rx_status)
    \/ \E len \in BufLens : ReadCall(len)
    \/ ReadStoreFlag
    \/ ReadActivate
    \/ ReadData
    \/ ReadPoll
    \/ ReadPollLoad
    \/ ReadDataAfterAwait
    \/ ReadReturn
    \/ ReadAbandon

RxSpec == Init /\ [][RxNext]_vars

\* ------------------------------------------------------ UART transmission
\* the caller's buffer: byte i of the buffer has value i
TxBuf(len) == [i \in 1..len |-> i]

InitFillCountAll(len) == len

\* `let init_fill_count = core::cmp::min(data.len(), 16)`
InitFillCount(len) == Min(len, InitFillMax)

PrefillProgressZero(init_fill_count) == 0

\* `context.progress = init_fill_count`
PrefillProgress(init_fill_count) == init_fill_count

\* `while context.progress < slice.len() { if !ready() { break; } write_data(
\* slice[progress]); progress += 1 }`; the hardware answers ready to the
\* first ready_count reads of the TX status and not ready to the next one
RECURSIVE TxWriteLoop(_, _, _)
TxWriteLoop(st, slice, ready_count) ==
    IF st.progress < Len(slice) /\ ready_count > 0
    THEN TxWriteLoop([progress |-> st.progress + 1,
                      written |-> Append(st.written, slice[st.progress + 1])],
                     slice, ready_count - 1)
    ELSE st

\* how many ready answers the hardware gives to one interrupt handler
\* invocation: the prefill leaves at most MaxTxLen - InitFillMax bytes, so a
\* larger count makes the loop do the same as this one
ReadyCounts == 0..(MaxTxLen - InitFillMax)

\* TxFuture::new, called by TxAsync::write, up to the prefill: TX_DONE is
\* cleared, the TX interrupts and the transmitter are disabled, the FIFO is
\* cleared and the first init_fill_count bytes are written
TxWrite(len) ==
    /\ writePc = "idle"
    /\ LET data == TxBuf(len)
           init_fill_count == InitFillCount(len)
       IN /\ writeBuf' = data
          /\ txDone' = FALSE
          /\ txIrqEn' = FALSE
          /\ txEn' = FALSE
          /\ txWritten' = Take(data, init_fill_count)
    /\ writePc' = "prefilled"
    /\ writeErr' = FALSE
    /\ txHist' = NoTxHist
    /\ UNCHANGED <<txContext, txWaker, writeOut, txWoken>>
    /\ UNCHANGED <<timeVars, initVars, gpioVars, portVars, waitVars, rxVars>>

\* TxFuture::new, the critical section: the context takes the slice and the
\* progress, the TX interrupts and the transmitter are enabled
TxEnable ==
    /\ writePc = "prefilled"
    /\ txContext' = [txContext EXCEPT !.slice = writeBuf,
                                      !.progress = PrefillProgress(Len(txWritten))]
    /\ txIrqEn' = TRUE
    /\ txEn' = TRUE
    /\ writePc' = "await"
    /\ txWoken' = TRUE
    /\ UNCHANGED <<txDone, txWaker, writeBuf, writeOut, writeErr, txWritten, txHist>>
    /\ UNCHANGED <<timeVars, initVars, gpioVars, portVars, waitVars, rxVars>>

TxTransferDoneIgnoreBusy(context, tx_busy) ==
    context.progress >= Len(context.slice)

\* `if context.progress >= slice.len() && !tx_status.tx_busy()`
TxTransferDone(context, tx_busy) ==
    context.progress >= Len(context.slice) /\ ~tx_busy

\* on_interrupt_tx, called from every interrupt handler of the UART bank
OnInterruptTx(ready_count, tx_busy, wr_lost) ==
    /\ IF ~txIrqEn
       THEN /\ txHist' = [txHist EXCEPT !.calledWhileOff = @ \cup {writePc}]
            /\ UNCHANGED <<txContext, txIrqEn, txEn, txDone, txWaker, txWritten,
                           txWoken>>
       ELSE LET context == [txContext EXCEPT !.tx_overrun = wr_lost]
                slice == context.slice
                hist == [txHist EXCEPT !.overrun = @ \/ wr_lost]
            IN IF TxTransferDone(context, tx_busy)
               THEN /\ txIrqEn' = FALSE
                    /\ txEn' = FALSE
                    /\ txContext' = context
                    /\ txDone' = TRUE
                    /\ txWaker' = FALSE
                    /\ txWoken' = (txWoken \/ txWaker)
                    /\ txHist' = [hist EXCEPT !.busyAtDone = tx_busy]
                    /\ UNCHANGED txWritten
               ELSE LET st == TxWriteLoop([progress |-> context.progress,
                                           written |-> txWritten],
                                          slice, ready_count)
                    IN /\ txContext' = [context EXCEPT !.progress = st.progress]
                       /\ txWritten' = st.written
                       /\ txHist' = [hist EXCEPT !.rounds =
                                        IF st.progress > context.progress
                                        THEN @ + 1 ELSE @,
                                      !.busyWaits =
                                        @ \/ context.progress >= Len(slice)]
                       /\ UNCHANGED <<txIrqEn, txEn, txDone, txWaker, txWoken>>
    /\ UNCHANGED <<writePc, writeBuf, writeOut, writeErr>>
    /\ UNCHANGED <<timeVars, initVars, gpioVars, portVars, waitVars, rxVars>>

\* TxFuture::poll: `UART_TX_WAKERS[..].register(cx.waker())`
TxPoll ==
    /\ writePc = "await"
    /\ txWaker' = TRUE
    /\ txWoken' = FALSE
    /\ writePc' = "swap"
    /\ UNCHANGED <<txContext, txIrqEn, txEn, txDone, writeBuf, writeOut, writeErr,
                   txWritten, txHist>>
    /\ UNCHANGED <<timeVars, initVars, gpioVars, portVars, waitVars, rxVars>>

TxDoneLoad(done) == done

\* what `TX_DONE[..].swap(false, Relaxed)` leaves in TX_DONE
TxDoneSwap(done) == FALSE

\* poll goes on: `TX_DONE[..].swap(false)`, `Poll::Ready(Ok(progress))` when
\* TX_DONE was set and Pending otherwise
TxPollSwap ==
    /\ writePc = "swap"
    /\ txDone' = TxDoneSwap(txDone)
    /\ IF txDone
       THEN /\ writePc' = "ready"
            /\ writeOut' = txContext.progress
            /\ writeErr' = FALSE
       ELSE /\ writePc' = "await"
            /\ UNCHANGED <<writeOut, writeErr>>
    /\ UNCHANGED <<txContext, txIrqEn, txEn, txWaker, writeBuf, txWritten, txHist,
                   txWoken>>
    /\ UNCHANGED <<timeVars, initVars, gpioVars, portVars, waitVars, rxVars>>

TxFutureDropNothing(irq_en, tx_en) == [irq_en |-> irq_en, tx_en |-> tx_en]

\* impl Drop for TxFuture
TxFutureDrop(irq_en, tx_en) == [irq_en |-> FALSE, tx_en |-> FALSE]

\* write() returns Ok(progress): the future is dropped
TxReturn ==
    /\ writePc = "ready"
    /\ LET d == TxFutureDrop(txIrqEn, txEn)
       IN txIrqEn' = d.irq_en /\ txEn' = d.tx_en
    /\ writePc' = "idle"
    /\ UNCHANGED <<txContext, txDone, txWaker, writeBuf, writeOut, writeErr,
                   txWritten, txHist, txWoken>>
    /\ UNCHANGED <<timeVars, initVars, gpioVars, portVars, waitVars, rxVars>>

\* the caller drops the write future before it resolved
TxAbandon ==
    /\ writePc = "await"
    /\ LET d == TxFutureDrop(txIrqEn, txEn)
       IN txIrqEn' = d.irq_en /\ txEn' = d.tx_en
    /\ writePc' = "idle"
    /\ txHist' = [txHist EXCEPT !.abandoned = TRUE]
    /\ UNCHANGED <<txContext, txDone, txWaker, writeBuf, writeOut, writeErr,
                   txWritten, txWoken>>
    /\ UNCHANGED <<timeVars, initVars, gpioVars, portVars, waitVars, rxVars>>

\* a step of on_interrupt_tx taken with the TX interrupts enabled: it leaves
\* the position of write() alone and either leaves TX_DONE and the waker
\* alone or completes the transmission
TxIsrStep ==
    /\ txIrqEn
    /\ UNCHANGED writePc
    /\ \/ UNCHANGED <<txDone, txWaker>>
       \/ txDone' /\ ~txIrqEn'

TxNext ==
    \/ \E len \in 0..MaxTxLen : TxWrite(len)
    \/ \E ready_count \in ReadyCounts, tx_busy \in BOOLEAN, wr_lost \in BOOLEAN :
          OnInterruptTx(ready_count, tx_busy, wr_lost)
    \/ TxEnable
    \/ TxPoll
    \/ TxPollSwap
    \/ TxReturn
    \/ TxAbandon

TxSpec == Init /\ [][TxNext]_vars

\* task code goes on, the executor polls a task that was woken, and a
\* transmission in progress keeps raising the TX interrupt until it is done
TxFairness ==
    /\ WF_vars(TxEnable)
    /\ SF_vars(txWoken /\ TxPoll)
    /\ WF_vars(TxPollSwap)
    /\ WF_vars(TxReturn)

TxFairSpec == TxSpec /\ TxFairness

\* ------------------------------------------------------------------ claims
QueueMin(q) ==
    LET ds == {q[tk] : tk \in Tasks} \ {NotQueued}
    IN IF ds = {} THEN U64Max ELSE SetMin(ds)

\* C1: the values returned by successive preemptible now() calls never
\* decrease, whatever the point of the call at which a wrap interrupt (hardware
\* wrap handled by next_period) lands, the double-read retry included.
C1_NowNonDecreasing == [][nowRet' >= nowRet]_vars

\* a now() call has returned after a wrap between its two reads forced a retry
C1_Witness == taskPc = "idle" /\ nowRetried /\ nowRet > 0 /\ periods > 0

\* C2: a deadline is woken only when now() (the value the driver read, and the
\* time the hardware really counted) has reached it, never while a smaller
\* deadline is still queued; an alarm interrupt taken while the cached deadline
\* is still > now() changes neither the Alarm State, the queue nor the alarm TIM.
C2_NoEarlyWake ==
    [][/\ \A d \in lastWake'.woken :
            /\ d <= lastWake'.now
            /\ d <= lastWake'.trueNow
            /\ \A r \in lastWake'.remaining : d < r
       /\ (alarmPending /\ ~alarmPending' /\ alarmTs > NowMasked)
            => UNCHANGED <<alarmTs, queue, alarmHw>>]_vars

\* the alarm interrupt has just woken the nearest of two queued deadlines
C2_Witness ==
    /\ handler = "on_interrupt_alarm"
    /\ lastWake.woken # {}
    /\ lastWake.remaining # {}

\* C3: a deadline that had not yet elapsed when it was scheduled is woken at a
\* time in [d, d + 2].
C3_WakeWithinTwoTicks ==
    \A d \in lastWake.due : d <= lastWake.trueNow /\ lastWake.trueNow <= d + 2

\* C3 as stated: every woken deadline d is woken at a time in [d, d + 2].
C3_EveryDeadlineWithinTwoTicks ==
    \A d \in lastWake.woken : d <= lastWake.trueNow /\ lastWake.trueNow <= d + 2

\* a deadline first left to next_period is woken by the alarm interrupt, 2 late
C3_Witness ==
    /\ handler = "on_interrupt_alarm"
    /\ periods > 0
    /\ \E d \in lastWake.due : lastWake.trueNow = d + 2

\* C4: set_alarm(t) with t <= now() on an initialised clock reports failure and
\* leaves the Alarm State at the sentinel with the alarm TIM and its interrupt
\* disabled.
C4_SetAlarmPastFails ==
    [][(SetAlarmStep /\ scale # 0 /\ next <= NowMasked)
         => (hpc' = "next_exp" /\ alarmTs' = U64Max /\ ~alarmEn' /\ ~alarmIrqEn')]_vars

\* set_alarm has just failed on a deadline that elapsed after next_expiration
C4_Witness ==
    /\ scale # 0
    /\ hpc = "next_exp"
    /\ retries > 0
    /\ next <= NowMasked
    /\ alarmTs = U64Max

DispatcherStep ==
    (\E edge_status \in EdgeStatusValues : OnInterruptForPort(edge_status))
        \/ DispatchIterate

\* the pins whose bit is set in both bitmaps
BothBits(irq_enb, edge_status) ==
    {p \in Pins : Bit(irq_enb, p) /\ Bit(edge_status, p)}

IsAscending(seq) == \A i, j \in DOMAIN seq : i < j => seq[i] < seq[j]

\* C6: one dispatch call flags and wakes every pin whose bit is set in both
\* bitmaps, whatever the bits of the other pins: all of them are processed, in
\* ascending pin order, when the call returns, and the call needs no more loop
\* iterations for it than enabled bits were read.
C6_DispatchMissesNoEvent ==
    [][DispatcherStep =>
         LET processed ==
                 \A p \in BothBits(dispEnb0', dispEdge') :
                     edgeDetection'[p] /\ p \in Range(wakeLog')
         IN /\ dispPc' = "idle" => processed /\ IsAscending(wakeLog')
            /\ dispIters' >= PopCount(dispEnb0') => processed]_vars

\* C7: on_interrupt_for_port terminates for every pair of bitmaps: each pass
\* through the loop clears one of the enabled bits that were read, so a loop
\* that is still running has made fewer passes than there were enabled bits.
C7_DispatchTerminates == dispPc = "loop" => dispIters < PopCount(dispEnb0)

\* C8 (frame): a pin whose enabled bit is clear keeps its flag and its waker
\* slot, whatever its edge-status bit
DispatchFrame ==
    \A p \in Pins :
        ~Bit(dispEnb0', p) =>
            /\ edgeDetection'[p] = dispFlags0'[p]
            /\ wakers'[p] = dispWakers0'[p]
            /\ p \notin Range(wakeLog')

\* C8, amended: dispatch leaves untouched every pin whose enabled bit is clear;
\* when P is the only enabled pin and its edge-status bit is set, the call ends
\* after one pass having woken exactly P's slot and set only P's flag.
C8_DispatchTouchesOnlyEnabledPins ==
    [][DispatcherStep =>
         /\ DispatchFrame
         /\ \A P \in Pins :
                (dispEnb0' = 2^P /\ Bit(dispEdge', P)) =>
                    /\ dispPc' = "loop" => dispIters' = 0
                    /\ dispPc' = "idle" =>
                           /\ wakeLog' = <<P>>
                           /\ edgeDetection'[P]
                           /\ \A q \in Pins \ {P} :
                                  edgeDetection'[q] = dispFlags0'[q]]_vars

\* C8 as stated: ... when P is the only pin with both bits set, exactly P's
\* slot is woken and only P's flag becomes true.
C8_OnlyPinWithBothBitsIsWoken ==
    [][DispatcherStep =>
         /\ DispatchFrame
         /\ \A P \in Pins :
                BothBits(dispEnb0', dispEdge') = {P} =>
                    /\ Range(wakeLog') \subseteq {P}
                    /\ \A q \in Pins \ {P} :
                           edgeDetection'[q] = dispFlags0'[q]]_vars

\* a dispatch has returned that found one pin enabled and the edge-status bits
\* of all pins set
C8_Witness ==
    /\ dispPc = "idle"
    /\ dispEdge = BitmapOf(Pins)
    /\ \E P \in Pins : dispEnb0 = 2^P /\ wakeLog = <<P>> /\ edgeDetection[P]

\* C9: when a dispatch call has returned, running the dispatcher again on the
\* same two bitmaps leaves every edge_detected flag as the first call left it.
C9_DispatchIdempotent ==
    [][(DispatcherStep /\ dispPc' = "idle") =>
         DispatchRun([irq_enb |-> dispEnb0', edge_status |-> dispEdge',
                      flags |-> edgeDetection', wakers |-> wakers']).flags
             = edgeDetection']_vars

\* a dispatch has returned after flagging both pins
C9_Witness ==
    /\ dispPc = "idle"
    /\ dispIters = 2
    /\ dispEnb0 = BitmapOf(Pins)
    /\ \A p \in Pins : edgeDetection[p]

\* C10: constructing a wait handle leaves the pin's edge_detected flag false,
\* in the vor1x and in the vor4x build.
C10_ConstructionClearsFlag ==
    [][\A p \in Pins :
           (fut[p] = "none" /\ fut'[p] = "pending") => ~edgeDetection'[p]]_vars

\* C14: destroying a wait handle, completed or abandoned, clears the pin's own
\* interrupt-enable bit, leaves the enable bits of the other pins as they
\* were and leaves the pin's edge_detected flag exactly as it was
C14_DropClearsOnlyOwnEnableBit ==
    [][\A pin \in Pins :
          DropFuture(pin) =>
              /\ ~Bit(irqEnb', pin)
              /\ \A q \in 0..5 : q # pin => Bit(irqEnb', q) = Bit(irqEnb, q)
              /\ edgeDetection'[pin] = edgeDetection[pin]]_vars

\* a handle of pin 3 was destroyed with its flag set while pin 5 stays armed
C14_Witness ==
    /\ fut[3] = "none"
    /\ edgeDetection[3]
    /\ ~Bit(irqEnb, 3)
    /\ fut[5] = "pending"
    /\ Bit(irqEnb, 5)

\* C12: every wait entry point and the dispatch entry point reject Port G by
\* returning PortDoesNotSupportInterrupts, without panicking and without
\* changing a wake table or a register
C12_PortGRejectedWithError ==
    [][\A op \in WaitEntryPoints :
          PortGCall(op) =>
              /\ callResult'.result = "PortDoesNotSupportInterrupts"
              /\ UNCHANGED gpioVars]_vars

\* C11: wait_for_high / wait_for_low arm the pin's edge interrupt before they
\* sample the level, a wait that finds the level already reached returns
\* without polling its handle, and a transition to the awaited level that
\* occurs after the arming is not lost: the wait completes
C11_ArmedBeforeSample ==
    \A pin \in Pins :
        waitPc[pin] = "armed" =>
            /\ Bit(irqEnb, pin)
            /\ ~Bit(irqSen, pin)
            /\ Bit(irqEvt, pin) = (waitOp[pin] = "high")

C11_TransitionAfterArmingNotLost ==
    \A pin \in Pins :
        (levelSeen[pin] /\ waitPc[pin] \in InFlight) ~> (waitPc[pin] \notin InFlight)

\* C15: wait_for_rising_edge, wait_for_falling_edge and wait_for_any_edge
\* complete only after the dispatcher has recorded an edge event for the pin
\* during that wait, in the vor1x and in the vor4x build
C15_EdgeWaitCompletesOnlyAfterEvent ==
    \A pin \in Pins :
        (waitPc[pin] \in Completed /\ waitOp[pin] \in EdgeOps) => evtInWait[pin]

\* the bytes lo..hi in arrival order (byte k has value k)
Arrivals(lo, hi) == [i \in 1..(hi - lo + 1) |-> lo + i - 1]

\* C16: variant A (drop on full): a byte that arrives at a full ring buffer is
\* read from the hardware FIFO and discarded, the buffered bytes and their
\* order stay as they were and an overflow is reported; fed more bytes than
\* the capacity, the buffer holds exactly the oldest `capacity` bytes in
\* arrival order
C16_DropOnFullKeepsOldest ==
    /\ [](rxVariant = "A" /\ rxStats.removed = 0 =>
              ring = Arrivals(1, Min(RingCapacity, rxStats.taken)))
    /\ [][(rxVariant = "A" /\ RxIsrStep) =>
                 /\ Len(ring') <= RingCapacity
                 /\ Take(ring', Len(ring)) = ring
                 /\ (Len(ring) = RingCapacity /\ Len(rxFifo') < Len(rxFifo)) =>
                        /\ ring' = ring
                        /\ rxStats'.drops = rxStats.drops + (Len(rxFifo) - Len(rxFifo'))
                        /\ rxStats'.reports = rxStats.reports + 1]_vars

\* variant A was fed more bytes than the capacity and dropped the excess
C16_Witness ==
    /\ rxVariant = "A"
    /\ rxStats.removed = 0
    /\ rxStats.taken > RingCapacity
    /\ rxStats.drops >= 1
    /\ rxStats.reports >= 1
    /\ Len(ring) = RingCapacity

\* C17: variant A reports overflow exactly once per dropped byte: the
\* overflow reports of the ISR account for exactly the bytes dropped, also
\* when several bytes are dropped within one ISR invocation
C17_OverflowReportedOncePerDroppedByte ==
    rxVariant = "A" => rxStats.reports = rxStats.drops

\* C18: variant B (overwrite oldest): each byte that arrives at a full buffer
\* evicts exactly one oldest entry before it is inserted, the buffer length
\* never exceeds the capacity, and the buffer always holds the most recent
\* bytes in arrival order, whatever reads are interleaved
C18_OverwriteKeepsMostRecent ==
    /\ [](rxVariant = "B" =>
              /\ Len(ring) <= RingCapacity
              /\ ring = Arrivals(rxStats.taken - Len(ring) + 1, rxStats.taken)
              /\ rxStats.removed = 0 => Len(ring) = Min(RingCapacity, rxStats.taken))
    /\ [][(rxVariant = "B" /\ RxIsrStep) =>
                 LET count == Len(rxFifo) - Len(rxFifo')
                 IN /\ rxStats'.evictions - rxStats.evictions =
                           Max(0, Len(ring) + count - RingCapacity)
                    /\ Len(ring') = Min(RingCapacity, Len(ring) + count)]_vars

\* variant B evicted bytes, before and after a read took some
C18_Witness ==
    /\ rxVariant = "B"
    /\ rxStats.evictions >= 2
    /\ rxStats.removed >= 1
    /\ Len(ring) = RingCapacity
    /\ rxStats.taken > RingCapacity + 1

\* C19: read() on a non-empty ring buffer returns without suspending; it
\* removes min(buffered length, buf.len()) bytes, oldest first, and returns
\* that count, which never exceeds buf.len()
C19_ReadNonEmptyReturnsAtOnce ==
    readHist.nonEmpty =>
        /\ ~readHist.suspended
        /\ readPc = "ret" =>
               /\ readOut.n = Min(Len(readOut.before), readLen)
               /\ readOut.bytes = Take(readOut.before, readOut.n)
               /\ readOut.n <= readLen

\* C13: abandoning an in-flight asynchronous operation synchronously disables
\* that operation's peripheral interrupt, so that afterwards no ISR invocation
\* modifies shared state (flags, ring buffer) for a completion nobody awaits
C13_AbandonDisablesInterrupt ==
    [][/\ ReadAbandon => ~rxIrqEn'
       /\ (readHist.abandoned /\ readPc = "idle" /\ RxIsrStep)
              => UNCHANGED <<ring, rxHasData>>]_vars

\* C20: when an asynchronous write completes, the bytes written to the data
\* register by the prefill and by all interrupt handler invocations together
\* are exactly the caller's buffer, in order and each byte once, whatever
\* the length and whatever the hardware answered to the ready reads; while
\* the write is in flight they are the first `progress` bytes of the buffer
C20_WriteTransmitsExactlyBuffer ==
    /\ writePc \in {"await", "swap", "ready"} =>
           /\ txContext.progress <= Len(writeBuf)
           /\ txWritten = Take(writeBuf, txContext.progress)
    /\ writePc = "ready" =>
           /\ txWritten = writeBuf
           /\ writeOut = Len(writeBuf)

C20_Witness ==
    /\ writePc = "ready"
    /\ Len(writeBuf) > InitFillMax
    /\ txHist.rounds >= 2
    /\ txWritten = writeBuf

\* C21: the prefill writes min(16, L) bytes while the TX interrupts are
\* still disabled, no interrupt handler invocation writes a byte or touches
\* the context before they are enabled, progress is set to that count, and
\* progress never exceeds L during a transmission
C21_PrefillThenProgressBounded ==
    /\ [](writePc \in {"await", "swap", "ready"} => txContext.progress <= Len(writeBuf))
    /\ [][/\ (writePc = "idle" /\ writePc' = "prefilled") =>
                  /\ ~txIrqEn'
                  /\ txWritten' = Take(writeBuf',
                                       IF Len(writeBuf') < InitFillMax
                                       THEN Len(writeBuf') ELSE InitFillMax)
          /\ (writePc = "prefilled" /\ writePc' = "prefilled") =>
                  UNCHANGED <<txWritten, txContext, txDone>>
          /\ TxEnable =>
                  /\ txContext'.progress = Len(txWritten)
                  /\ txContext'.progress =
                        IF Len(writeBuf) < InitFillMax THEN Len(writeBuf)
                                                       ELSE InitFillMax]_vars

C21_Witness ==
    /\ writePc = "await"
    /\ Len(writeBuf) > InitFillMax
    /\ txContext.progress = InitFillMax
    /\ txHist.rounds = 0
    /\ "prefilled" \in txHist.calledWhileOff

\* C22: the transmission-complete flag is set only by an interrupt handler
\* invocation that sees progress = L and the hardware not busy; that
\* invocation disables the TX interrupts and the transmitter; the completed
\* write returns the final progress, which is L
C22_DoneOnlyWhenCompleteAndIdle ==
    /\ [](writePc = "ready" =>
              /\ writeOut = txContext.progress
              /\ writeOut = Len(writeBuf))
    /\ [][(~txDone /\ txDone') =>
              /\ writePc \in {"await", "swap"}
              /\ txContext.progress = Len(writeBuf)
              /\ ~txHist'.busyAtDone
              /\ ~txIrqEn' /\ ~txEn']_vars

C22_Witness ==
    /\ writePc = "ready"
    /\ Len(writeBuf) > 0
    /\ txHist.busyWaits
    /\ ~txIrqEn /\ ~txEn

\* C23: a TX overrun seen by the interrupt handler during a transmission is
\* still recorded in the TX context when the write completes and is surfaced
\* in the result of the write
C23_OverrunSurfaced ==
    (writePc = "ready" /\ txHist.overrun) => (txContext.tx_overrun /\ writeErr)

\* C24: abandoning an in-flight write disables the TX interrupts and the
\* transmitter at once; from then until the next write starts an interrupt
\* handler invocation writes no byte and leaves the TX context, the
\* transmission-complete flag and the waker as they are
C24_AbandonedWriteStopsIsr ==
    [][/\ TxAbandon => (~txIrqEn' /\ ~txEn')
       /\ (txHist.abandoned /\ writePc = "idle" /\ writePc' = "idle") =>
              UNCHANGED <<txContext, txDone, txWaker, txWritten, txIrqEn, txEn>>]_vars

C24_Witness ==
    /\ txHist.abandoned
    /\ writePc = "idle"
    /\ "idle" \in txHist.calledWhileOff
    /\ txContext.progress < Len(txContext.slice)

\* C25: while the time driver is not initialised (no scale), now() returns 0
\* and set_alarm reports failure without changing the Alarm State or the
\* alarm TIM
C25_UninitialisedClock ==
    [][/\ (scale = 0 /\ hpc = "next_exp") => lastWake'.now = 0
       /\ (scale = 0 /\ hpc = "set_alarm") =>
              (hpc' = "next_exp" /\ UNCHANGED <<alarmTs, alarmHw, scale, tkCount>>)]_vars

\* set_alarm has just failed because the driver is not initialised
C25_Witness ==
    /\ scale = 0
    /\ handler = "schedule_wake"
    /\ hpc = "next_exp"
    /\ retries > 0
    /\ alarmTs = U64Max

\* C26: __init takes effect once: a call made on the initialised driver,
\* whatever its arguments, leaves the scale, the recorded timekeeper and alarm
\* TIM identities, the periods counter, the Alarm State, the Deadline Queue and
\* the configuration of both TIM peripherals as they are
C26_InitEffectiveOnce ==
    [][\A s \in Scales, tims \in TimPairs :
          (scale # 0 /\ InitCall(s, tims[1], tims[2])) =>
              UNCHANGED <<scale, timekeeperTim, alarmTim, periods, alarmTs, queue,
                          tkCount, alarmHw, wrapPending, alarmPending>>]_vars

\* __init was called with other arguments while an alarm was armed
C26_Witness ==
    /\ reinit = "armed"
    /\ scale # 0
    /\ alarmTs # U64Max

\* C27: now() is non-decreasing also for the readers that run with
\* interrupts masked: the value set_alarm reads from now() is not smaller than
\* the value the same handler read from now() just before, for its
\* next_expiration call, also when the hardware counter wrapped in between
\* and the wrap handler is still deferred
C27_MaskedNowNonDecreasing ==
    (scale # 0 /\ hpc = "set_alarm") => NowMasked >= lastWake.now

\* C28: now() returns no torn combination: the value it returns is
\* ((p << 32) | raw) / scale for the value p that periods had when the counter
\* was read as raw; an attempt whose two reads of periods differ is discarded
\* and retried; a call interrupted by finitely many wraps returns
C28_NowNeverTorn ==
    /\ [][(taskPc = "now_p2" /\ taskPc' = "idle") =>
              /\ period1 = periodsAtRead
              /\ nowRet' = NowValue(periodsAtRead, counterVal, scale)]_vars
    /\ [][(taskPc = "now_p2" /\ taskPc' # "now_p2" /\ period1 # periods) =>
              (taskPc' = "now_p1" /\ nowRet' = nowRet)]_vars
    /\ (taskPc # "idle") ~> (taskPc = "idle")

\* a now() call has returned a consistent pair after a wrap between its two
\* reads of periods made it discard an attempt
C28_Witness ==
    /\ taskPc = "idle"
    /\ nowRetried
    /\ periodsAtRead = periods
    /\ period1 = periods
    /\ periods > 0
    /\ nowRet = NowValue(periods, counterVal, scale)

\* C29: trigger_alarm has disabled the alarm TIM and reset the Alarm State to
\* the sentinel whenever it asks the Deadline Queue (which wakes the elapsed
\* deadlines); when it returns the driver is idle (sentinel, alarm TIM
\* disabled, nothing queued) or holds the queue's nearest deadline, which was
\* > now() when it was armed, and no queued deadline has elapsed, neither by
\* that now() nor by the time the hardware has really counted
C29_TriggerAlarmOutcome ==
    /\ []((handler \in TriggerHandlers /\ hpc = "next_exp") =>
              (alarmTs = U64Max /\ ~alarmEn /\ ~alarmIrqEn))
    /\ [][(handler \in TriggerHandlers /\ handler' = "none") =>
              /\ alarmTs' = QueueMin(queue')
              /\ alarmTs' = U64Max =>
                     /\ ~alarmEn' /\ ~alarmIrqEn'
                     /\ \A tk \in Tasks : queue'[tk] = NotQueued
              /\ alarmTs' # U64Max => alarmTs' > NowMasked
              /\ \A tk \in Tasks :
                     queue'[tk] # NotQueued =>
                         (queue'[tk] > NowMasked /\ queue'[tk] > TrueNow)]_vars

\* C30: when next_period takes the fire-immediately branch (cached timestamp
\* < t, t = new period << 32) the cached deadline is in the past, timestamp
\* <= now(), for every scale; otherwise, when the remaining ticks fit the
\* counter, the alarm TIM is programmed with the hardware ticks that remain
\* until the deadline and enabled
C30_NextPeriodBranches ==
    [][(periods' = periods + 1) =>
          LET t == (periods + 1) * PeriodTicks
          IN /\ alarmTs < t => alarmTs <= NowMasked'
             /\ (alarmTs >= t /\ FitsU32(CheckedMul(alarmTs - t, scale))) =>
                    /\ alarmCount' = alarmTs * scale - hwTime
                    /\ alarmEn' /\ alarmIrqEn']_vars

\* C31: outside a critical section the alarm scheduler is Idle (sentinel,
\* alarm TIM and its interrupt disabled), Armed (deadline cached, alarm TIM
\* and its interrupt enabled) or Pending-Reprogram (deadline cached, alarm TIM
\* and its interrupt disabled): a sentinel never goes with an enabled alarm
C31_IdleArmedOrPendingReprogram ==
    handler = "none" =>
        /\ alarmTs = U64Max => (~alarmEn /\ ~alarmIrqEn)
        /\ alarmEn <=> alarmIrqEn
        /\ alarmEn => alarmTs # U64Max

\* Pending-Reprogram after a wrap: a deadline beyond the range of the alarm
\* TIM is cached and the alarm TIM is off
C31_Witness ==
    /\ handler = "none"
    /\ periods > 0
    /\ alarmTs # U64Max
    /\ ~alarmEn /\ ~alarmIrqEn

\* C32: every schedule_wake and every trigger_alarm call returns: the
\* set_alarm retry loop ends after finitely many passes, also when
\* schedule_wake is called before the driver is initialised
C32_RetryLoopsTerminate == (handler # "none") ~> (handler = "none")

\* a step in which the task polls the pending future of pin: nothing but the
\* pin's waker, flag and future changes
C33_PollOf(pin) ==
    /\ dispPc = "idle"
    /\ fut[pin] = "pending"
    /\ fut'[pin] # "none"
    /\ UNCHANGED <<irqEnb, edgeRegs, dispatcher, gpioHistory>>
    /\ \A q \in Pins \ {pin} :
           /\ fut'[q] = fut[q]
           /\ wakers'[q] = wakers[q]
           /\ edgeDetection'[q] = edgeDetection[q]

\* C33: a poll of a GPIO wait registers the caller's waker and swaps the
\* pin's edge_detected flag to false; it returns Ready exactly when the flag
\* was true, and the flag is false after every poll, so one recorded event
\* completes at most one poll
C33_PollConsumesFlag ==
    [][\A pin \in Pins :
          C33_PollOf(pin) =>
              /\ wakers'[pin]
              /\ ~edgeDetection'[pin]
              /\ (fut'[pin] = "ready") <=> edgeDetection[pin]]_vars

C33_Witness ==
    \E pin \in Pins : fut[pin] = "ready" /\ wakers[pin] /\ ~edgeDetection[pin]

\* C34: no GPIO wake-up is lost, wherever the dispatch handler that records
\* an event for a pin falls relative to a live wait on that pin: the wait is
\* never suspended with the pin's flag set and no wake delivered since the
\* registration, and a wait whose pin has its flag set completes
C34_NoLostWakeup ==
    /\ [](\A pin \in Pins :
             (dispPc = "idle" /\ waitPc[pin] = "await" /\ edgeDetection[pin])
                 => needsPoll[pin])
    /\ \A pin \in Pins :
           (waitPc[pin] \in {"await", "swap"} /\ edgeDetection[pin])
               ~> (waitPc[pin] \notin {"await", "swap"})

\* C35: after configure_edge_interrupt(e) the pin is sensitive to exactly
\* the requested edges, whatever configuration calls preceded it; a
\* HighToLow or LowToHigh request after a BothEdges request yields
\* single-edge sensitivity
C35_SensitivityAsRequested ==
    \A pin \in Pins :
        fut[pin] = "pending" =>
            Sensitivity([sen |-> irqSen, evt |-> irqEvt, edge |-> irqEdge], pin)
                = EdgeOfWait(waitOp[pin])

\* C36: an RX ISR invocation (either variant) sets the data-available flag
\* and wakes the continuation registered by the pending read exactly when
\* it took at least one byte out of the hardware FIFO; an invocation that
\* took no byte leaves the flag, the registered waker and the task alone
C36_FlagAndWakeIffBytesMoved ==
    [][RxIsrStep =>
              LET moved == Len(rxFifo) - Len(rxFifo')
              IN /\ moved > 0 =>
                        /\ rxHasData'
                        /\ (rxReadActive /\ rxWaker) => (rxWoken' /\ ~rxWaker')
                 /\ moved = 0 => UNCHANGED <<rxHasData, rxWaker, rxWoken, ring>>]_vars

\* the ISR was called for another cause while a read was suspended, and
\* was called again when a byte had arrived: the read has been woken
C36_Witness ==
    /\ readPc = "await"
    /\ readHist.suspended
    /\ rxIsr.ret = "Ok"
    /\ rxStats.taken = 1
    /\ rxHasData
    /\ rxWoken
    /\ ~rxWaker

\* C37: no received data is stranded by a race between the RX ISR and
\* read(), wherever the ISR falls between the steps of read(): a read is
\* never left suspended while the ring buffer is non-empty and no wake is
\* pending
C37_NoStrandedData ==
    (readPc = "await" /\ readHist.suspended /\ ring # <<>>) => rxWoken

\* C38: the RX ISR surfaces hardware errors without stopping reception: it
\* samples the overrun, framing and parity flags only if the RX interrupts
\* are enabled, returns an error exactly when such a flag or a ring buffer
\* overflow occurred in the invocation and Ok otherwise, and in every case
\* moves the received bytes, leaves the receiver and the RX interrupts
\* enabled and clears the RX overrun interrupt status
C38_ErrorsSurfacedReceptionGoesOn ==
    [][\A irq_rx_timeout \in BOOLEAN, rx_status \in RxStatusValues :
          (RxIsrStep /\ OnInterruptRx(irq_rx_timeout, rx_status)) =>
              LET hw_error == rxIrqEn /\ rx_status \cap {"overrun", "framing", "parity"} # {}
                  overflow == \/ rxStats'.drops > rxStats.drops
                              \/ rxStats'.evictions > rxStats.evictions
                  received == IF ~rxIrqEn THEN 0
                              ELSE IF irq_rx_timeout THEN Len(rxFifo)
                              ELSE IF Len(rxFifo) >= RxTriggerLevel THEN RxTriggerLevel
                              ELSE 0
              IN /\ rxIsr'.ret = IF hw_error \/ overflow THEN "Err" ELSE "Ok"
                 /\ rxStats'.taken = rxStats.taken + received
                 /\ Len(rxFifo') = Len(rxFifo) - received
                 /\ UNCHANGED <<rxEn, rxIrqEn>>
                 /\ "rx_overrun" \in rxIsr'.irq_clr]_vars

\* an invocation returned an error for a hardware flag alone, after it
\* moved bytes; reception is still on
C38_Witness ==
    /\ rxIsr.ret = "Err"
    /\ rxStats.drops = 0
    /\ rxStats.evictions = 0
    /\ rxStats.taken > 0
    /\ ring # <<>>
    /\ rxEn
    /\ rxIrqEn

\* C39 as stated: TxFuture::new stores the new buffer reference and the
\* progress with overrun = false in the critical section that enables the
\* TX interrupts and the transmitter
C39_ContextFullyReset ==
    [][(writePc = "prefilled" /\ writePc' = "await") =>
           txContext' = [slice |-> writeBuf,
                         progress |-> Min(Len(writeBuf), InitFillMax),
                         tx_overrun |-> FALSE]]_vars

\* C39, amended: between the start of write() and the critical section the
\* TX interrupts and the transmitter are off and TX_DONE is clear; the
\* critical section stores the new buffer reference and the prefill count
\* and enables both; the overrun field is not reset there, but every
\* interrupt handler invocation overwrites it with what it reads from the
\* hardware, so the context an invocation leaves holds nothing of an
\* earlier transmission
C39_ContextSetBeforeIsr ==
    /\ [](writePc = "prefilled" => (~txIrqEn /\ ~txEn /\ ~txDone))
    /\ [](writePc \in {"await", "swap"} => txContext.slice = writeBuf)
    /\ [][(writePc = "prefilled" /\ writePc' = "await") =>
              /\ txContext'.slice = writeBuf
              /\ txContext'.progress = Min(Len(writeBuf), InitFillMax)
              /\ txIrqEn' /\ txEn' /\ ~txDone']_vars
    /\ [][TxIsrStep =>
              /\ txContext'.slice = writeBuf
              /\ txContext'.tx_overrun => txHist'.overrun]_vars

\* a write has just been enabled with the overrun field of an earlier
\* transmission still set
C39_Witness ==
    /\ writePc = "await"
    /\ txIrqEn
    /\ txHist = NoTxHist
    /\ txContext.tx_overrun
    /\ txContext.slice = writeBuf
    /\ txContext.progress = InitFillMax
    /\ Len(writeBuf) > InitFillMax

\* C40: the completion of a transmission is delivered exactly once and is
\* never lost, wherever the completing interrupt handler invocation falls
\* relative to poll (before the waker registration, between the
\* registration and the TX_DONE swap, after a Pending): a suspended write
\* whose TX_DONE is set has a wake pending and the write becomes Ready;
\* TX_DONE is false once the write is Ready and at the start of the next one
C40_CompletionDeliveredOnce ==
    /\ [](writePc = "await" /\ txDone => txWoken)
    /\ [](writePc \in {"ready", "prefilled"} => ~txDone)
    /\ [][(writePc = "swap" /\ writePc' # "swap") =>
              /\ ~txDone'
              /\ (writePc' = "ready") <=> txDone]_vars
    /\ (writePc \in {"await", "swap"} /\ txDone) ~> (writePc \in {"ready", "idle"})

\* the completing invocation came after a poll that returned Pending, and
\* the write has become Ready
C40_Witness ==
    /\ writePc = "ready"
    /\ txWoken
    /\ ~txDone
    /\ ~txWaker
    /\ writeOut = Len(writeBuf)
    /\ Len(writeBuf) > InitFillMax

TypeOK ==
    /\ scale \in {0} \cup Scales
    /\ tkCount \in 0..CounterMax
    /\ alarmCount \in 0..CounterMax
    /\ alarmTs \in 0..U64Max
    /\ hwTime \in 0..MaxTime
====
